---- MODULE Spec2Model ----
(***************************************************************************)
(* Model of the inter-agent messaging core of vibecraft:                   *)
(*   src/server/AgentRegistry.ts       (the agent directory)               *)
(*   src/server/AgentMessageRouter.ts  (routing, retry, correlation)       *)
(*                                                                         *)
(* The router runs on one JavaScript event loop.  A handler runs without   *)
(* interruption up to its next `await`; each action below is one such      *)
(* run-to-completion segment.  The delivery callback and the backoff timer *)
(* are the only suspension points inside the router.                       *)
(***************************************************************************)
EXTENDS Integers, Sequences, FiniteSets, TLC

VARIABLES
    agents,            \* AgentRegistry.agents: Map in insertion order, <<agentId, entry>>
    regOps,            \* number of registry mutations performed so far
    changeCallbacks,   \* AgentRegistry.changeCallbacks, in subscription order
    notified,          \* what the latest registry mutation did to the subscribers
    pendingMessages,   \* AgentMessageRouter.pendingMessages: Map, <<messageId, PendingMessage>>
    messageHistory,    \* AgentMessageRouter.messageHistory
    timeoutChecker,    \* TRUE while the setInterval handle is set
    nextSweep,         \* time at which the interval timer is next due
    now,               \* Date.now()
    uuid,              \* number of messageIds drawn from randomUUID so far
    sends,             \* sendMessage calls that passed validation, by messageId
    responses,         \* handleResponse calls, in call order
    bcasts,            \* broadcast calls, in call order
    uiEvents,          \* events handed to the broadcastEvent callback, in order
    firstDeliveries,   \* what each first invocation of the delivery callback could observe
    consumed,          \* per messageId: what removed its PendingMessage from the map, and
                       \* where the sendMessage call stood then
    lastReturn,        \* value returned by the step just taken, if it was a call that returned
    calls,             \* number of calls so far that got past their first check
    failures           \* number of delivery callback failures so far

vars == <<agents, regOps, changeCallbacks, notified, pendingMessages, messageHistory, timeoutChecker, nextSweep, now,
          uuid, sends, responses, bcasts, uiEvents, firstDeliveries, consumed,
          lastReturn, calls, failures>>

registryVars == <<agents, regOps, changeCallbacks, notified>>
routerVars == <<pendingMessages, messageHistory, timeoutChecker, nextSweep, uuid, sends,
                responses, bcasts, uiEvents, firstDeliveries, consumed, calls, failures>>

(***************************************************************************)
(* Bounds of the model                                                     *)
(***************************************************************************)
MaxCalls == 3        \* sendMessage + handleResponse + broadcast calls that change state
MaxRegOps == 3       \* registry mutations
MaxFailures == 3     \* delivery callback failures
MaxInputs == 7       \* registry mutations + calls + delivery failures
MaxTicks == 2        \* clock advances
TickMs == 4000       \* milliseconds per clock advance

Inputs == regOps + calls + failures

AgentIds == {"A", "B", "C"}
NoReturn == [call |-> "none"]
Undefined == "undefined"

(***************************************************************************)
(* Program constants                                                       *)
(***************************************************************************)
maxAttempts == 3
baseDelayMs == 1000
maxDelayMs == 10000
maxHistorySize == 100
sweepIntervalMs == 5000
defaultResponseTimeout == 300000

(***************************************************************************)
(* JavaScript Map, kept as a sequence of <<key, value>> in insertion order *)
(***************************************************************************)
Range(s) == {s[i] : i \in 1..Len(s)}

MapKeys(m) == {m[i][1] : i \in 1..Len(m)}

MapHas(m, k) == k \in MapKeys(m)

MapGet(m, k) == m[CHOOSE i \in 1..Len(m) : m[i][1] = k][2]

MapValues(m) == [i \in 1..Len(m) |-> m[i][2]]

\* Map.set: an existing key keeps its position, a new key goes last
MapSet(m, k, v) ==
    IF MapHas(m, k)
    THEN [i \in 1..Len(m) |-> IF m[i][1] = k THEN <<k, v>> ELSE m[i]]
    ELSE Append(m, <<k, v>>)

MapDelete(m, k) == SelectSeq(m, LAMBDA e : e[1] # k)

Min(a, b) == IF a < b THEN a ELSE b

RECURSIVE Pow2(_)
Pow2(n) == IF n = 0 THEN 1 ELSE 2 * Pow2(n - 1)

(***************************************************************************)
(* AgentRegistry                                                           *)
(***************************************************************************)
Includes(arr, x) == x \in Range(arr)

\* registry.get(agentId) is defined iff RegistryHas; callers test for undefined first
RegistryHas(ag, agentId) == MapHas(ag, agentId)

get(ag, agentId) == MapGet(ag, agentId)

getAll(ag) == MapValues(ag)

\* variant: agents that opted out of messages are kept
getMessageableAgents_optedOut(ag) ==
    SelectSeq(getAll(ag), LAMBDA a : a.status # "offline")

getMessageableAgents(ag) ==
    SelectSeq(getAll(ag), LAMBDA a : a.acceptsMessages /\ a.status # "offline")

findByCapability(ag, capability) ==
    SelectSeq(getAll(ag), LAMBDA a : /\ Includes(a.capabilities, capability)
                                     /\ a.acceptsMessages
                                     /\ a.status # "offline")

statusPriority(status) ==
    CASE status = "idle" -> 0
      [] status = "working" -> 1
      [] status = "waiting" -> 2
      [] status = "offline" -> 3

\* variant: among equal statuses the least recently active agent sorts first
compareCandidates_oldestFirst(a, b) ==
    LET statusDiff == statusPriority(a.status) - statusPriority(b.status)
    IN  IF statusDiff # 0 THEN statusDiff ELSE a.lastActivity - b.lastActivity

\* the comparator handed to Array.prototype.sort: negative when a sorts before b
compareCandidates(a, b) ==
    LET statusDiff == statusPriority(a.status) - statusPriority(b.status)
    IN  IF statusDiff # 0 THEN statusDiff ELSE b.lastActivity - a.lastActivity

\* Array.prototype.sort is stable: x goes after every element that does not sort after it
RECURSIVE InsertSorted(_, _)
InsertSorted(sorted, x) ==
    IF sorted = <<>> THEN <<x>>
    ELSE IF compareCandidates(Head(sorted), x) <= 0
         THEN <<Head(sorted)>> \o InsertSorted(Tail(sorted), x)
         ELSE <<x>> \o sorted

RECURSIVE SortCandidates(_)
SortCandidates(arr) ==
    IF arr = <<>> THEN <<>>
    ELSE InsertSorted(SortCandidates(SubSeq(arr, 1, Len(arr) - 1)), arr[Len(arr)])

\* the result is <<>> for undefined, <<entry>> otherwise
findBestForCapability(ag, capability, excludeAgentId) ==
    LET candidates == SelectSeq(findByCapability(ag, capability),
                                LAMBDA a : a.agentId # excludeAgentId)
    IN  IF Len(candidates) = 0 THEN <<>> ELSE <<SortCandidates(candidates)[1]>>

\* register(request, session): acceptsMessages defaults to true when the request omits it
RegistryEntry(request, session) ==
    [agentId |-> request.agentId,
     name |-> request.name,
     capabilities |-> request.capabilities,
     status |-> session.status,
     cwd |-> session.cwd,
     lastActivity |-> session.lastActivity,
     acceptsMessages |-> IF "acceptsMessages" \in DOMAIN request
                         THEN request.acceptsMessages ELSE TRUE,
     metadata |-> request.metadata]

\* the (request, session) pairs the model feeds to register()
Registrations ==
    LET request(agentId) == [agentId |-> agentId, name |-> agentId,
                             capabilities |-> <<"general", "testing">>, metadata |-> "meta"]
        session(status, lastActivity) ==
            [status |-> status, cwd |-> "/repo", lastActivity |-> lastActivity]
    IN  {[request |-> request("A"), session |-> session("idle", 5)],
         [request |-> request("B"), session |-> session("idle", 5)],
         [request |-> request("C"), session |-> session("working", 8)],
         [request |-> request("C") @@ [acceptsMessages |-> FALSE],
          session |-> session("idle", 8)]}

\* the registrations of the two agents that exchange a request and its response
Correspondents == {r \in Registrations : r.request.agentId \in {"A", "B"}}

\* the statuses the model feeds to updateStatus()
StatusUpdates == {"offline"}

\* who calls what in the model: A sends and broadcasts, B answers, C only listens
Senders == {"A"}
Responders == {"B"}
Leavers == {"A", "B"}

\* the subscribers the model has: one returns, one throws whenever it is invoked
Callbacks == {"listener", "faulty"}

Throws(callback) == callback = "faulty"

\* what a registry mutation leaves in `notified`: the number of the mutation, the
\* subscribers there were, the invocations made (callback, the list it was handed,
\* whether it threw) and whether an exception reached the caller of the mutation
Notification(at, subscribers, invoked, raised) ==
    [at |-> at, subscribers |-> subscribers, invoked |-> invoked, raised |-> raised]

NoNotification == Notification(0, <<>>, <<>>, FALSE)

\* variant: the exception of a callback ends the loop and reaches the caller
notifyChange_uncaught(callbacks, ag, at) ==
    LET registry == getAll(ag)
        throwing == {i \in 1..Len(callbacks) : Throws(callbacks[i])}
        last == IF throwing = {} THEN Len(callbacks)
                ELSE CHOOSE i \in throwing : \A j \in throwing : i <= j
    IN  Notification(at, callbacks,
                     [i \in 1..last |-> [callback |-> callbacks[i], registry |-> registry,
                                         threw |-> Throws(callbacks[i])]],
                     throwing # {})

\* lines 248-257: every callback gets the list of getAll(); what one throws is logged
notifyChange(callbacks, ag, at) ==
    LET registry == getAll(ag)
    IN  Notification(at, callbacks,
                     [i \in 1..Len(callbacks) |->
                         [callback |-> callbacks[i], registry |-> registry,
                          threw |-> Throws(callbacks[i])]],
                     FALSE)

\* what every mutating operation ends with: the mutation is counted and notified
Mutated(ag) ==
    /\ agents' = ag
    /\ regOps' = regOps + 1
    /\ notified' = notifyChange(changeCallbacks, ag, regOps + 1)
    /\ UNCHANGED changeCallbacks

\* lines 49-67; `observed` is what the run keeps of the call
RegisterWith(request, session, observed) ==
    /\ regOps < MaxRegOps
    /\ Inputs < MaxInputs
    /\ Mutated(MapSet(agents, request.agentId, RegistryEntry(request, session)))
    /\ lastReturn' = observed
    /\ UNCHANGED <<routerVars, now>>

Register(request, session) == RegisterWith(request, session, NoReturn)

\* lines 128-135, an agent that is registered
UnregisterWith(agentId, observed) ==
    /\ regOps < MaxRegOps
    /\ Inputs < MaxInputs
    /\ RegistryHas(agents, agentId)
    /\ Mutated(MapDelete(agents, agentId))
    /\ lastReturn' = observed
    /\ UNCHANGED <<routerVars, now>>

Unregister(agentId) == UnregisterWith(agentId, NoReturn)

\* a lookup through the registry's public findBestForCapability
FindBestForCapability(capability, excludeAgentId) ==
    /\ lastReturn' = [call |-> "findBestForCapability",
                      capability |-> capability,
                      excludeAgentId |-> excludeAgentId,
                      result |-> findBestForCapability(agents, capability, excludeAgentId)]
    /\ UNCHANGED <<registryVars, routerVars, now>>

\* lines 140-147, an agent that is registered
UpdateStatusWith(agentId, status, observed) ==
    /\ regOps < MaxRegOps
    /\ Inputs < MaxInputs
    /\ RegistryHas(agents, agentId)
    /\ Mutated(MapSet(agents, agentId,
                       [get(agents, agentId) EXCEPT !.status = status, !.lastActivity = now]))
    /\ lastReturn' = observed
    /\ UNCHANGED <<routerVars, now>>

UpdateStatus(agentId, status) == UpdateStatusWith(agentId, status, NoReturn)

(***************************************************************************)
(* The registry's whole interface, each call with what its caller observes *)
(***************************************************************************)
\* String.prototype.toLowerCase over the letters of a name; a name is the sequence of
\* its characters
UpperCase == <<"A", "B", "C", "D", "E", "F", "G", "H", "I", "J", "K", "L", "M",
               "N", "O", "P", "Q", "R", "S", "T", "U", "V", "W", "X", "Y", "Z">>

LowerCase == <<"a", "b", "c", "d", "e", "f", "g", "h", "i", "j", "k", "l", "m",
               "n", "o", "p", "q", "r", "s", "t", "u", "v", "w", "x", "y", "z">>

toLowerCase(name) ==
    [i \in 1..Len(name) |->
        IF \E k \in 1..Len(UpperCase) : UpperCase[k] = name[i]
        THEN LowerCase[CHOOSE k \in 1..Len(UpperCase) : UpperCase[k] = name[i]]
        ELSE name[i]]

\* String.prototype.includes
includes(name, keyword) ==
    \E i \in 0..(Len(name) - Len(keyword)) : SubSeq(name, i + 1, i + Len(keyword)) = keyword

\* lines 103-120: the keywords of each capability, in the order of the tests
KeywordRules ==
    <<[capability |-> "frontend",
       keywords |-> {<<"f", "r", "o", "n", "t", "e", "n", "d">>, <<"u", "i">>,
                     <<"r", "e", "a", "c", "t">>, <<"v", "u", "e">>}],
      [capability |-> "backend",
       keywords |-> {<<"b", "a", "c", "k", "e", "n", "d">>, <<"a", "p", "i">>,
                     <<"s", "e", "r", "v", "e", "r">>}],
      [capability |-> "database",
       keywords |-> {<<"d", "a", "t", "a", "b", "a", "s", "e">>, <<"d", "b">>,
                     <<"s", "q", "l">>, <<"p", "o", "s", "t", "g", "r", "e", "s">>}],
      [capability |-> "testing",
       keywords |-> {<<"t", "e", "s", "t">>, <<"s", "p", "e", "c">>, <<"e", "2", "e">>}],
      [capability |-> "devops",
       keywords |-> {<<"d", "e", "v", "o", "p", "s">>, <<"d", "e", "p", "l", "o", "y">>,
                     <<"c", "i">>, <<"d", "o", "c", "k", "e", "r">>}],
      [capability |-> "security",
       keywords |-> {<<"s", "e", "c", "u", "r", "i", "t", "y">>, <<"a", "u", "t", "h">>,
                     <<"s", "e", "c", "u", "r", "e">>}]>>

\* [...new Set(list)]: the first occurrence of each element, in order
RECURSIVE Unique(_)
Unique(list) ==
    IF list = <<>> THEN <<>>
    ELSE LET front == Unique(SubSeq(list, 1, Len(list) - 1))
             last == list[Len(list)]
         IN  IF \E i \in 1..Len(front) : front[i] = last THEN front ELSE Append(front, last)

\* variant: the tests are chained with else, the first rule that matches is the only one
RECURSIVE PushMatching_firstOnly(_, _, _)
PushMatching_firstOnly(capabilities, nameLower, n) ==
    IF n = 0 THEN capabilities
    ELSE LET before == PushMatching_firstOnly(capabilities, nameLower, n - 1)
         IN  IF /\ before = capabilities
                /\ \E keyword \in KeywordRules[n].keywords : includes(nameLower, keyword)
             THEN Append(before, KeywordRules[n].capability)
             ELSE before

RECURSIVE PushMatching(_, _, _)
PushMatching(capabilities, nameLower, n) ==
    IF n = 0 THEN capabilities
    ELSE LET before == PushMatching(capabilities, nameLower, n - 1)
         IN  IF \E keyword \in KeywordRules[n].keywords : includes(nameLower, keyword)
             THEN Append(before, KeywordRules[n].capability)
             ELSE before

\* lines 98-123
inferCapabilities(session) ==
    Unique(PushMatching(<<"general">>, toLowerCase(session.name), Len(KeywordRules)))

\* lines 76-86: the entry registerFromSession builds
SessionEntry(session) ==
    [agentId |-> session.id,
     name |-> session.name,
     capabilities |-> inferCapabilities(session),
     status |-> session.status,
     cwd |-> session.cwd,
     lastActivity |-> session.lastActivity,
     acceptsMessages |-> TRUE,
     metadata |-> "{}"]

\* the agents, the names and the sessions this interface is exercised with
RegistryIds == {"A", "B"}

SessionNames == {<<"B", "u", "i", "l", "d", " ", "D", "B">>,
                 <<"a", "p", "i", "-", "t", "e", "s", "t">>,
                 <<"m", "a", "i", "n">>}

ManagedSessions ==
    [id : RegistryIds, name : SessionNames, status : {"idle", "offline"},
     cwd : {"/repo"}, lastActivity : {5}]

\* the payloads of register_agent: the capability list is whatever the client sent
RegistrationRequests ==
    [agentId : RegistryIds, name : {<<"b", "o", "t">>},
     capabilities : {<<>>}, metadata : {"meta"}]
    \cup [agentId : RegistryIds, name : {<<"b", "o", "t">>},
           capabilities : {<<"testing">>}, metadata : {"meta"}, acceptsMessages : {FALSE}]

\* MaxCallbacks bounds the subscribers there are at one time
MaxCallbacks == 2

\* variant: a registration never replaces an entry, it is added after the others
RegisterCall_appending(request, session) ==
    /\ regOps < MaxRegOps
    /\ Inputs < MaxInputs
    /\ Mutated(Append(agents, <<request.agentId, RegistryEntry(request, session)>>))
    /\ lastReturn' = [call |-> "register", agentId |-> request.agentId,
                      existed |-> RegistryHas(agents, request.agentId),
                      entry |-> RegistryEntry(request, session)]
    /\ UNCHANGED <<routerVars, now>>

\* register(request, session), lines 49-67
RegisterCall(request, session) ==
    RegisterWith(request, session,
                 [call |-> "register", agentId |-> request.agentId,
                  existed |-> RegistryHas(agents, request.agentId),
                  entry |-> RegistryEntry(request, session)])

\* the register_agent message: the session is the one the server manages under the
\* agent's id
RegisterAgent(request) ==
    RegisterCall(request, [id |-> request.agentId, name |-> <<"m", "a", "i", "n">>,
                           status |-> "idle", cwd |-> "/home", lastActivity |-> 3])

\* registerFromSession(session), lines 73-93
RegisterFromSession(session) ==
    /\ regOps < MaxRegOps
    /\ Inputs < MaxInputs
    /\ Mutated(MapSet(agents, session.id, SessionEntry(session)))
    /\ lastReturn' = [call |-> "registerFromSession", agentId |-> session.id,
                      existed |-> RegistryHas(agents, session.id),
                      entry |-> SessionEntry(session)]
    /\ UNCHANGED <<routerVars, now>>

\* variant: the agent is registered from the session whether it is known or not
UpdateFromSession_registers(session) ==
    /\ regOps < MaxRegOps
    /\ Inputs < MaxInputs
    /\ Mutated(MapSet(agents, session.id, SessionEntry(session)))
    /\ lastReturn' = [call |-> "updateFromSession", agentId |-> session.id,
                      existed |-> RegistryHas(agents, session.id), session |-> session]
    /\ UNCHANGED <<routerVars, now>>

\* updateFromSession(session), lines 152-163
UpdateFromSession(session) ==
    /\ regOps < MaxRegOps
    /\ Inputs < MaxInputs
    /\ IF RegistryHas(agents, session.id)
       THEN Mutated(MapSet(agents, session.id,
                           [get(agents, session.id) EXCEPT
                               !.status = session.status,
                               !.lastActivity = session.lastActivity,
                               !.cwd = session.cwd]))
       ELSE Mutated(MapSet(agents, session.id, SessionEntry(session)))
    /\ lastReturn' = [call |-> "updateFromSession", agentId |-> session.id,
                      existed |-> RegistryHas(agents, session.id), session |-> session]
    /\ UNCHANGED <<routerVars, now>>

\* unregister(agentId), lines 128-135: nothing is notified when the agent is unknown
UnregisterCall(agentId) ==
    IF RegistryHas(agents, agentId)
    THEN UnregisterWith(agentId, [call |-> "unregister", agentId |-> agentId,
                                  existed |-> TRUE])
    ELSE /\ lastReturn' = [call |-> "unregister", agentId |-> agentId, existed |-> FALSE]
         /\ UNCHANGED <<registryVars, routerVars, now>>

\* updateStatus(agentId, status), lines 140-147
UpdateStatusCall(agentId, status) ==
    IF RegistryHas(agents, agentId)
    THEN UpdateStatusWith(agentId, status, [call |-> "updateStatus", agentId |-> agentId,
                                            existed |-> TRUE])
    ELSE /\ lastReturn' = [call |-> "updateStatus", agentId |-> agentId, existed |-> FALSE]
         /\ UNCHANGED <<registryVars, routerVars, now>>

\* clear(), lines 262-266
Clear ==
    /\ regOps < MaxRegOps
    /\ Inputs < MaxInputs
    /\ Mutated(<<>>)
    /\ lastReturn' = [call |-> "clear"]
    /\ UNCHANGED <<routerVars, now>>

\* onChange(callback), line 236
OnChange(callback) ==
    /\ Len(changeCallbacks) < MaxCallbacks
    /\ changeCallbacks' = Append(changeCallbacks, callback)
    /\ lastReturn' = NoReturn
    /\ UNCHANGED <<agents, regOps, notified, routerVars, now>>

\* the function onChange(callback) returned is called between two operations,
\* lines 237-242: the first occurrence of the callback is taken out
Unsubscribe(callback) ==
    /\ \E i \in 1..Len(changeCallbacks) : changeCallbacks[i] = callback
    /\ LET index == CHOOSE i \in 1..Len(changeCallbacks) :
                        /\ changeCallbacks[i] = callback
                        /\ \A j \in 1..(i - 1) : changeCallbacks[j] # callback
       IN  changeCallbacks' = SubSeq(changeCallbacks, 1, index - 1)
                              \o SubSeq(changeCallbacks, index + 1, Len(changeCallbacks))
    /\ lastReturn' = NoReturn
    /\ UNCHANGED <<agents, regOps, notified, routerVars, now>>

(***************************************************************************)
(* AgentMessageRouter: the state one synchronous segment works on          *)
(***************************************************************************)
Cur ==
    [pendingMessages |-> pendingMessages, messageHistory |-> messageHistory,
     uiEvents |-> uiEvents, firstDeliveries |-> firstDeliveries,
     sends |-> sends, consumed |-> consumed]

Commit(st) ==
    /\ pendingMessages' = st.pendingMessages
    /\ messageHistory' = st.messageHistory
    /\ uiEvents' = st.uiEvents
    /\ firstDeliveries' = st.firstDeliveries
    /\ sends' = st.sends
    /\ consumed' = st.consumed

\* variant: a full history refuses the new event and keeps the oldest
addToHistory_dropsNewest(st, event) ==
    LET pushed == Append(st.messageHistory, event)
    IN  [st EXCEPT !.messageHistory =
            IF Len(pushed) > maxHistorySize THEN SubSeq(pushed, 1, maxHistorySize)
            ELSE pushed]

\* lines 565-570
addToHistory(st, event) ==
    LET pushed == Append(st.messageHistory, event)
    IN  [st EXCEPT !.messageHistory =
            IF Len(pushed) > maxHistorySize THEN Tail(pushed) ELSE pushed]

\* the externally owned broadcastEvent callback: the model records what it was handed
broadcastEvent(st, event) == [st EXCEPT !.uiEvents = Append(@, event)]

HasEvent(events, id) == \E i \in 1..Len(events) : events[i].id = id

\* One invocation of the externally owned deliverMessage callback.  Its outcome arrives
\* later (DeliveryOk / DeliveryFail actions); what the model records here is what the
\* callback could observe when it is invoked for the first time for `owner`.
deliverMessage(st, ag, agentId, message, owner, attempt) ==
    IF attempt # 1 THEN st
    ELSE [st EXCEPT !.firstDeliveries = @ \cup
            {[owner |-> owner,
              agentId |-> agentId,
              registered |-> RegistryHas(ag, agentId),
              acceptsMessages |-> RegistryHas(ag, agentId) /\ get(ag, agentId).acceptsMessages,
              offline |-> RegistryHas(ag, agentId) /\ get(ag, agentId).status = "offline",
              message |-> message,
              inHistory |-> HasEvent(st.messageHistory, owner),
              broadcasted |-> HasEvent(st.uiEvents, owner),
              pendingRegistered |-> /\ message.type = "agent_message"
                                    /\ MapHas(st.pendingMessages, message.messageId)]}]

\* new Promise(resolve => ...): settling a settled promise has no effect
ResolvePromise(st, messageId, result) ==
    IF st.sends[messageId].result = <<>>
    THEN [st EXCEPT !.sends[messageId].result = <<result>>,
                    !.sends[messageId].pc = "returned"]
    ELSE st

\* variant: the consumption is recorded but the entry stays in the map
DeletePending_kept(st, messageId, by) ==
    [st EXCEPT !.consumed = IF MapHas(st.pendingMessages, messageId) /\ messageId \notin DOMAIN @
                            THEN (messageId :> [by |-> by, pc |-> st.sends[messageId].pc]) @@ @
                            ELSE @]

\* this.pendingMessages.delete(messageId); `by` names the caller for the consumed record
DeletePending(st, messageId, by) ==
    [st EXCEPT !.pendingMessages = MapDelete(@, messageId),
               !.consumed = IF MapHas(st.pendingMessages, messageId) /\ messageId \notin DOMAIN @
                            THEN (messageId :> [by |-> by, pc |-> st.sends[messageId].pc]) @@ @
                            ELSE @]

\* PendingMessage.resolve, the closure built in sendMessage
PendingResolve(st, messageId, result, by) ==
    LET marked == IF MapHas(st.pendingMessages, messageId)
                  THEN [st EXCEPT !.pendingMessages =
                           MapSet(@, messageId,
                                  [MapGet(@, messageId) EXCEPT !.responseReceived = TRUE])]
                  ELSE st
        deleted == DeletePending(marked, messageId, by)
    IN  IF deleted.sends[messageId].pendingPromiseResolve
        THEN ResolvePromise(deleted, messageId, result)
        ELSE deleted

\* PendingMessage.reject, the closure built in sendMessage
PendingReject(st, messageId, errorMessage, by) ==
    LET deleted == DeletePending(st, messageId, by)
    IN  IF deleted.sends[messageId].pendingPromiseResolve
        THEN ResolvePromise(deleted, messageId,
                            [ok |-> FALSE, messageId |-> messageId,
                             targetAgentId |-> deleted.sends[messageId].targetAgentId,
                             error |-> errorMessage])
        ELSE deleted

(***************************************************************************)
(* sendMessage                                                             *)
(***************************************************************************)
ErrSenderNotFound == "Sender agent not found in registry"
ErrTargetNotFound == "Target agent not found"
ErrTargetNotAccepting == "Target agent does not accept messages"
ErrTargetOffline == "Target agent is offline"
ErrNoCapabilityMatch == "No agent found with capability"
ErrMissingRoutingTarget == "Must specify either toAgentId or toCapability"
ErrDeliveryFailed == "Delivery failed"
ErrResponseTimeout == "Response timeout"
ErrRouterCleared == "Router cleared"
ErrSenderGone == "Original sender no longer available"
ErrResponderNotFound == "Responding agent not found in registry"
ErrNoPending == "No pending message found (may have timed out)"
ErrResponseUndelivered == "Response received but delivery failed: Delivery failed"

Has(request, field) == field \in DOMAIN request

\* `if (request.toAgentId)`: the field is there and is not the empty string
Given(request, field) == Has(request, field) /\ request[field] # ""

\* `if (request.expectsResponse)`, `request.expectsResponse ?? false`
ExpectsResponse(request) == Has(request, "expectsResponse") /\ request.expectsResponse

\* the requests the model feeds to sendMessage
SendRequests ==
    LET routes == {[toAgentId |-> a] : a \in AgentIds \ Senders}
                  \cup {[toCapability |-> "testing"], [message |-> "run suite"]}
        options == {[expectsResponse |-> FALSE],
                    [expectsResponse |-> TRUE, responseTimeout |-> 100]}
    IN  {r @@ o @@ [message |-> "run suite"] : r \in routes, o \in options}

\* the requests that expect no response
FireAndForget == {r \in SendRequests : ~ExpectsResponse(r)}

\* the requests addressed to the agent that answers
DirectRequests == {r \in SendRequests : Has(r, "toAgentId") /\ r.toAgentId \in Responders}

\* variant: the status of a direct target is tested before its acceptsMessages flag
ResolveTarget_offlineFirst(ag, fromAgentId, request) ==
    IF ~RegistryHas(ag, fromAgentId)
    THEN [ok |-> FALSE, error |-> ErrSenderNotFound]
    ELSE IF Given(request, "toAgentId")
    THEN IF ~RegistryHas(ag, request.toAgentId)
         THEN [ok |-> FALSE, error |-> ErrTargetNotFound]
         ELSE IF get(ag, request.toAgentId).status = "offline"
         THEN [ok |-> FALSE, error |-> ErrTargetOffline]
         ELSE IF ~get(ag, request.toAgentId).acceptsMessages
         THEN [ok |-> FALSE, error |-> ErrTargetNotAccepting]
         ELSE [ok |-> TRUE, routing |-> "direct", targetAgentId |-> request.toAgentId]
    ELSE IF Given(request, "toCapability")
    THEN LET bestAgent == findBestForCapability(ag, request.toCapability, fromAgentId)
         IN  IF bestAgent = <<>>
             THEN [ok |-> FALSE, error |-> ErrNoCapabilityMatch]
             ELSE [ok |-> TRUE, routing |-> "capability",
                   targetAgentId |-> bestAgent[1].agentId]
    ELSE [ok |-> FALSE, error |-> ErrMissingRoutingTarget]

\* variant: the sender is not left out of the search by capability
ResolveTarget_selfTarget(ag, fromAgentId, request) ==
    IF ~RegistryHas(ag, fromAgentId)
    THEN [ok |-> FALSE, error |-> ErrSenderNotFound]
    ELSE IF Given(request, "toAgentId")
    THEN IF ~RegistryHas(ag, request.toAgentId)
         THEN [ok |-> FALSE, error |-> ErrTargetNotFound]
         ELSE IF ~get(ag, request.toAgentId).acceptsMessages
         THEN [ok |-> FALSE, error |-> ErrTargetNotAccepting]
         ELSE IF get(ag, request.toAgentId).status = "offline"
         THEN [ok |-> FALSE, error |-> ErrTargetOffline]
         ELSE [ok |-> TRUE, routing |-> "direct", targetAgentId |-> request.toAgentId]
    ELSE IF Given(request, "toCapability")
    THEN LET bestAgent == findBestForCapability(ag, request.toCapability, Undefined)
         IN  IF bestAgent = <<>>
             THEN [ok |-> FALSE, error |-> ErrNoCapabilityMatch]
             ELSE [ok |-> TRUE, routing |-> "capability",
                   targetAgentId |-> bestAgent[1].agentId]
    ELSE [ok |-> FALSE, error |-> ErrMissingRoutingTarget]

\* lines 132-167: the target, or the validation error
ResolveTarget(ag, fromAgentId, request) ==
    IF ~RegistryHas(ag, fromAgentId)
    THEN [ok |-> FALSE, error |-> ErrSenderNotFound]
    ELSE IF Given(request, "toAgentId")
    THEN IF ~RegistryHas(ag, request.toAgentId)
         THEN [ok |-> FALSE, error |-> ErrTargetNotFound]
         ELSE IF ~get(ag, request.toAgentId).acceptsMessages
         THEN [ok |-> FALSE, error |-> ErrTargetNotAccepting]
         ELSE IF get(ag, request.toAgentId).status = "offline"
         THEN [ok |-> FALSE, error |-> ErrTargetOffline]
         ELSE [ok |-> TRUE, routing |-> "direct", targetAgentId |-> request.toAgentId]
    ELSE IF Given(request, "toCapability")
    THEN LET bestAgent == findBestForCapability(ag, request.toCapability, fromAgentId)
         IN  IF bestAgent = <<>>
             THEN [ok |-> FALSE, error |-> ErrNoCapabilityMatch]
             ELSE [ok |-> TRUE, routing |-> "capability",
                   targetAgentId |-> bestAgent[1].agentId]
    ELSE [ok |-> FALSE, error |-> ErrMissingRoutingTarget]

\* variant: an id generator that hands out the same id again
randomUUID_reused(drawn) == 1

\* randomUUID(): an id that was never drawn before
randomUUID(drawn) == drawn + 1

ResponseTimeoutOf(request) ==
    IF Has(request, "responseTimeout") THEN request.responseTimeout
    ELSE defaultResponseTimeout

MessageEvent(ag, fromAgentId, request, target, messageId) ==
    [id |-> <<"send", messageId>>,
     type |-> "agent_message",
     fromAgentId |-> fromAgentId,
     fromAgentName |-> get(ag, fromAgentId).name,
     toAgentId |-> target.targetAgentId,
     toCapability |-> IF Has(request, "toCapability") THEN request.toCapability ELSE Undefined,
     routing |-> target.routing,
     message |-> request.message,
     priority |-> "normal",
     messageId |-> messageId,
     expectsResponse |-> ExpectsResponse(request),
     responseTimeout |-> ResponseTimeoutOf(request)]

PendingMessage(fromAgentId, request, target, messageId, sentAt) ==
    [messageId |-> messageId,
     fromAgentId |-> fromAgentId,
     toAgentId |-> target.targetAgentId,
     sentAt |-> sentAt,
     timeout |-> ResponseTimeoutOf(request),
     originalMessage |-> request.message,
     deliveryAttempts |-> 1,
     responseReceived |-> FALSE]

SendFrame(fromAgentId, request, target) ==
    [fromAgentId |-> fromAgentId,
     request |-> request,
     targetAgentId |-> target.targetAgentId,
     expectsResponse |-> ExpectsResponse(request),
     pc |-> "delivering",
     attempt |-> 1,
     wakeAt |-> 0,
     delay |-> 0,
     pendingPromiseResolve |-> FALSE,
     result |-> <<>>]

\* variant: the delivery callback is invoked before the PendingMessage is registered
SendMessageSegment_deliverFirst(st, ag, fromAgentId, request, target, messageId, sentAt) ==
    LET messageEvent == MessageEvent(ag, fromAgentId, request, target, messageId)
        called == [st EXCEPT !.sends =
                      (messageId :> SendFrame(fromAgentId, request, target)) @@ @]
        s1 == addToHistory(called, messageEvent)
        s2 == broadcastEvent(s1, messageEvent)
        s3 == deliverMessage(s2, ag, target.targetAgentId, messageEvent, messageEvent.id, 1)
    IN  IF ExpectsResponse(request)
        THEN [s3 EXCEPT !.pendingMessages =
                 MapSet(@, messageId,
                        PendingMessage(fromAgentId, request, target, messageId, sentAt))]
        ELSE s3

\* variant: history and the event broadcast are written once delivery has been started
SendMessageSegment_broadcastLast(st, ag, fromAgentId, request, target, messageId, sentAt) ==
    LET messageEvent == MessageEvent(ag, fromAgentId, request, target, messageId)
        called == [st EXCEPT !.sends =
                      (messageId :> SendFrame(fromAgentId, request, target)) @@ @]
        s1 == IF ExpectsResponse(request)
              THEN [called EXCEPT !.pendingMessages =
                       MapSet(@, messageId,
                              PendingMessage(fromAgentId, request, target, messageId, sentAt))]
              ELSE called
        s2 == deliverMessage(s1, ag, target.targetAgentId, messageEvent, messageEvent.id, 1)
    IN  broadcastEvent(addToHistory(s2, messageEvent), messageEvent)

\* lines 169-239, up to and including the first invocation of the delivery callback
SendMessageSegment(st, ag, fromAgentId, request, target, messageId, sentAt) ==
    LET messageEvent == MessageEvent(ag, fromAgentId, request, target, messageId)
        called == [st EXCEPT !.sends =
                      (messageId :> SendFrame(fromAgentId, request, target)) @@ @]
        s1 == addToHistory(called, messageEvent)
        s2 == broadcastEvent(s1, messageEvent)
        s3 == IF ExpectsResponse(request)
              THEN [s2 EXCEPT !.pendingMessages =
                       MapSet(@, messageId,
                              PendingMessage(fromAgentId, request, target, messageId, sentAt))]
              ELSE s2
    IN  deliverMessage(s3, ag, target.targetAgentId, messageEvent, messageEvent.id, 1)

\* variant: a request that fails validation is recorded and shown to the observers
SendRefused_recorded(st, fromAgentId, request) ==
    LET event == [id |-> <<"send", 0>>, type |-> "agent_message",
                  fromAgentId |-> fromAgentId, message |-> request.message]
    IN  broadcastEvent(addToHistory(st, event), event)

\* lines 132-167: every return of the validation comes before anything is recorded
SendRefused(st, fromAgentId, request) == st

SendMessage(fromAgentId, request) ==
    /\ calls < MaxCalls
    /\ Inputs < MaxInputs
    /\ LET target == ResolveTarget(agents, fromAgentId, request)
           messageId == randomUUID(uuid)
       IN  IF ~target.ok
           THEN /\ lastReturn' = [call |-> "sendMessage", fromAgentId |-> fromAgentId,
                                  request |-> request, ok |-> FALSE, error |-> target.error]
                /\ Commit(SendRefused(Cur, fromAgentId, request))
                /\ UNCHANGED <<uuid, calls>>
           ELSE /\ uuid' = messageId
                /\ calls' = calls + 1
                /\ Commit(SendMessageSegment(Cur, agents, fromAgentId, request, target,
                                             messageId, now))
                /\ lastReturn' = NoReturn
    /\ UNCHANGED <<registryVars, timeoutChecker, nextSweep, now, responses, bcasts, failures>>

(***************************************************************************)
(* deliverWithRetry                                                        *)
(***************************************************************************)
\* Math.random() * 1000, in whole milliseconds
Jitters == {0, 999}
LongestJitter == {999}

\* variant: the delay does not grow with the attempts
RetryDelay_flat(attempt, jitter) ==
    Min(baseDelayMs + jitter, maxDelayMs)

\* variant: the exponent is the attempt number
RetryDelay_doubled(attempt, jitter) ==
    Min(baseDelayMs * Pow2(attempt) + jitter, maxDelayMs)

\* lines 286-289
RetryDelay(attempt, jitter) ==
    Min(baseDelayMs * Pow2(attempt - 1) + jitter, maxDelayMs)

\* variant: one attempt more before giving up
Exhausted_oneMore(attempt) == attempt > maxAttempts

\* line 281: the failure of this attempt is thrown to the caller of deliverWithRetry
Exhausted(attempt) == attempt >= maxAttempts

\* lines 285-292: a failed attempt that is retried; the frame sleeps `delay` ms, until wakeAt
Backoff(frame, jitter, t) ==
    [frame EXCEPT !.pc = "backoff",
                  !.delay = RetryDelay(frame.attempt, jitter),
                  !.wakeAt = t + RetryDelay(frame.attempt, jitter)]

\* line 294: the timer fired, deliverWithRetry(agentId, message, attempt + 1)
Reattempt(frame) ==
    [frame EXCEPT !.pc = "delivering", !.attempt = @ + 1, !.delay = 0, !.wakeAt = 0]

(***************************************************************************)
(* sendMessage after `await this.deliverWithRetry(...)`                    *)
(***************************************************************************)
\* variant: the call waits for a response whether or not one is expected
SendDelivered_alwaysWaits(st, messageId) ==
    [st EXCEPT !.sends[messageId].pc = "suspended",
               !.sends[messageId].pendingPromiseResolve = TRUE]

\* lines 240-257: delivery succeeded
SendDelivered(st, messageId) ==
    IF ~st.sends[messageId].expectsResponse
    THEN [st EXCEPT !.sends[messageId].pc = "returned",
                    !.sends[messageId].result =
                        <<[ok |-> TRUE, messageId |-> messageId,
                           targetAgentId |-> st.sends[messageId].targetAgentId]>>]
    ELSE [st EXCEPT !.sends[messageId].pc = "suspended",
                    !.sends[messageId].pendingPromiseResolve = TRUE]

\* variant: no catch block, the failure of the delivery leaves sendMessage as an exception
SendFailed_rethrown(st, messageId) ==
    [st EXCEPT !.sends[messageId].pc = "threw"]

\* variant: the catch block leaves the PendingMessage in the map
SendFailed_dangling(st, messageId) ==
    [st EXCEPT !.sends[messageId].pc = "returned",
               !.sends[messageId].result =
                   <<[ok |-> FALSE, messageId |-> messageId,
                      error |-> ErrDeliveryFailed]>>]

\* lines 258-267: the catch block
SendFailed(st, messageId) ==
    LET deleted == DeletePending(st, messageId, "failure")
    IN  [deleted EXCEPT !.sends[messageId].pc = "returned",
                        !.sends[messageId].result =
                            <<[ok |-> FALSE, messageId |-> messageId,
                               error |-> ErrDeliveryFailed]>>]

SendDeliveryOk(messageId) ==
    /\ sends[messageId].pc = "delivering"
    /\ Commit(SendDelivered(Cur, messageId))
    /\ lastReturn' = NoReturn
    /\ UNCHANGED <<registryVars, timeoutChecker, nextSweep, now, uuid, responses, bcasts,
                   calls, failures>>

SendDeliveryFail(messageId, jitter) ==
    /\ sends[messageId].pc = "delivering"
    /\ failures < MaxFailures
    /\ Inputs < MaxInputs
    /\ failures' = failures + 1
    /\ IF Exhausted(sends[messageId].attempt)
       THEN Commit(SendFailed(Cur, messageId))
       ELSE /\ sends' = [sends EXCEPT ![messageId] = Backoff(@, jitter, now)]
            /\ UNCHANGED <<pendingMessages, messageHistory, uiEvents, firstDeliveries,
                           consumed>>
    /\ lastReturn' = NoReturn
    /\ UNCHANGED <<registryVars, timeoutChecker, nextSweep, now, uuid, responses, bcasts,
                    calls>>

SendRetry(messageId) ==
    /\ sends[messageId].pc = "backoff"
    /\ now >= sends[messageId].wakeAt
    /\ sends' = [sends EXCEPT ![messageId] = Reattempt(@)]
    /\ lastReturn' = NoReturn
    /\ UNCHANGED <<registryVars, pendingMessages, messageHistory, timeoutChecker, nextSweep,
                   now, uuid, responses, bcasts, uiEvents, firstDeliveries, consumed,
                   calls, failures>>

(***************************************************************************)
(* The timeout sweep and shutdown                                          *)
(***************************************************************************)
\* variant: a request is expired as soon as its timeout has passed
Expired_onTime(pending, t) == t - pending.sentAt >= pending.timeout

\* line 551
Expired(pending, t) == t - pending.sentAt > pending.timeout

\* the for-of loops of checkTimeouts and clearPending: reject each listed entry
RECURSIVE RejectEach(_, _, _, _)
RejectEach(st, messageIds, errorMessage, by) ==
    IF messageIds = <<>> THEN st
    ELSE RejectEach(DeletePending(PendingReject(st, Head(messageIds), errorMessage, by),
                                  Head(messageIds), by),
                    Tail(messageIds), errorMessage, by)

\* lines 548-560
checkTimeouts(st, t) ==
    LET expired == SelectSeq(MapValues(st.pendingMessages), LAMBDA p : Expired(p, t))
    IN  RejectEach(st, [i \in 1..Len(expired) |-> expired[i].messageId],
                   ErrResponseTimeout, "timeout")

\* variant: only the oldest pending request is rejected and removed
clearPending_firstOnly(st) ==
    LET all == MapValues(st.pendingMessages)
    IN  RejectEach(st, [i \in 1..Min(1, Len(all)) |-> all[i].messageId],
                   ErrRouterCleared, "shutdown")

\* lines 609-614
clearPending(st) ==
    LET all == MapValues(st.pendingMessages)
        rejected == RejectEach(st, [i \in 1..Len(all) |-> all[i].messageId],
                               ErrRouterCleared, "shutdown")
    IN  [rejected EXCEPT !.pendingMessages = <<>>]

\* the setInterval callback
CheckTimeouts ==
    /\ timeoutChecker
    /\ now >= nextSweep
    /\ nextSweep' = now + sweepIntervalMs
    /\ Commit(checkTimeouts(Cur, now))
    /\ lastReturn' = NoReturn
    /\ UNCHANGED <<registryVars, timeoutChecker, now, uuid, responses, bcasts,
                   calls, failures>>

\* lines 113-119; destroy() returns nothing, `observed` is what the step leaves in
\* lastReturn for the properties to read
DestroyWith(observed) ==
    /\ timeoutChecker' = FALSE
    /\ Commit(clearPending(Cur))
    /\ lastReturn' = observed
    /\ UNCHANGED <<registryVars, nextSweep, now, uuid, responses, bcasts,
                   calls, failures>>

Destroy == DestroyWith(NoReturn)

\* the same call, leaving a record of it: whether the timer had been cleared by an
\* earlier call, and how many requests were pending when it was made
DestroyCall ==
    DestroyWith([call |-> "destroy", again |-> ~timeoutChecker,
                 pendingBefore |-> Len(pendingMessages)])

Tick ==
    /\ now < MaxTicks * TickMs
    /\ now' = now + TickMs
    /\ lastReturn' = NoReturn
    /\ UNCHANGED <<registryVars, routerVars>>

(***************************************************************************)
(* handleResponse                                                          *)
(***************************************************************************)
\* the (response, success, error, data) arguments the model feeds to handleResponse
ResponsePayloads ==
    {[response |-> "42 passed", success |-> TRUE, error |-> Undefined, data |-> "data"],
     [response |-> "suite broken", success |-> FALSE, error |-> "exit 1", data |-> Undefined]}

\* messageId.slice(0, 8): a prefix of the id, so distinct ids may share it
\* (7 hexadecimal digits here, the most that fits 32-bit integers)
ShortId(messageId) == messageId % (16 * 16 * 16 * 16 * 16 * 16 * 16)

\* lines 450-483
formatResponseForDelivery(response, fromAgentName, messageId, success, error) ==
    IF ~success
    THEN <<"[VIBECRAFT RESPONSE - ERROR]", fromAgentName, ShortId(messageId), "FAILED",
           IF error = Undefined THEN "Unknown error" ELSE error, response>>
    ELSE <<"[VIBECRAFT RESPONSE]", fromAgentName, ShortId(messageId), "SUCCESS", response>>

\* lines 330-344 (toAgentId = "") and lines 358-372 (toAgentId = the original sender)
ResponseEvent(call, fromAgentId, fromAgentName, toAgentId, messageId, payload) ==
    [id |-> <<"resp", call>>,
     type |-> "agent_message_response",
     fromAgentId |-> fromAgentId,
     fromAgentName |-> fromAgentName,
     toAgentId |-> toAgentId,
     inResponseTo |-> messageId,
     response |-> payload.response,
     data |-> payload.data,
     success |-> payload.success,
     error |-> payload.error]

\* variant: the message is addressed to the agent that answered
ResponseDeliveryMessage_toResponder(call, fromAgentId, fromAgentName, pending, messageId, payload) ==
    [id |-> <<"respDelivery", call>>,
     type |-> "agent_message",
     sessionId |-> pending.fromAgentId,
     fromAgentId |-> fromAgentId,
     fromAgentName |-> fromAgentName,
     toAgentId |-> fromAgentId,
     routing |-> "direct",
     message |-> formatResponseForDelivery(payload.response, fromAgentName, messageId,
                                           payload.success, payload.error),
     priority |-> "high",
     messageId |-> messageId,
     expectsResponse |-> FALSE]

\* lines 383-405
ResponseDeliveryMessage(call, fromAgentId, fromAgentName, pending, messageId, payload) ==
    [id |-> <<"respDelivery", call>>,
     type |-> "agent_message",
     sessionId |-> pending.fromAgentId,
     fromAgentId |-> fromAgentId,
     fromAgentName |-> fromAgentName,
     toAgentId |-> pending.fromAgentId,
     routing |-> "direct",
     message |-> formatResponseForDelivery(payload.response, fromAgentName, messageId,
                                           payload.success, payload.error),
     priority |-> "high",
     messageId |-> messageId,
     expectsResponse |-> FALSE]

ResponseFrame(call, fromAgentId, messageId, payload) ==
    [call |-> call,
     fromAgentId |-> fromAgentId,
     messageId |-> messageId,
     payload |-> payload,
     pending |-> <<>>,                    \* the PendingMessage object held by the call
     requestPc |-> "none",                \* where the sendMessage call stood at this call
     consumedIt |-> FALSE,                \* this call removed the PendingMessage from the map
     consumedBefore |-> "none",           \* what had consumed the request before this call
     pc |-> "returned",
     attempt |-> 1,
     wakeAt |-> 0,
     delay |-> 0,
     ret |-> <<>>]

\* variant: a response of an unknown agent rejects the request it names
ResponderUnknown_rejects(st, frame) ==
    [st |-> IF MapHas(st.pendingMessages, frame.messageId)
            THEN PendingReject(st, frame.messageId, ErrResponderNotFound, "unknown")
            ELSE st,
     frame |-> [frame EXCEPT !.ret = <<[delivered |-> FALSE,
                                        error |-> ErrResponderNotFound]>>]]

\* lines 322-325: the responder is unknown, the call returns
ResponderUnknown(st, frame) ==
    [st |-> st,
     frame |-> [frame EXCEPT !.ret = <<[delivered |-> FALSE,
                                        error |-> ErrResponderNotFound]>>]]

\* variant: the response is re-delivered before it is recorded and broadcast
HandleResponseSegment_deliverFirst(st, ag, call, frame) ==
    LET fromAgentId == frame.fromAgentId
        messageId == frame.messageId
        payload == frame.payload
    IN  IF ~RegistryHas(ag, fromAgentId)
        THEN [st |-> st,
              frame |-> [frame EXCEPT !.ret = <<[delivered |-> FALSE,
                                                 error |-> ErrResponderNotFound]>>]]
        ELSE IF ~MapHas(st.pendingMessages, messageId)
        THEN LET responseEvent == ResponseEvent(call, fromAgentId, get(ag, fromAgentId).name,
                                                "", messageId, payload)
             IN  [st |-> broadcastEvent(addToHistory(st, responseEvent), responseEvent),
                  frame |-> [frame EXCEPT !.ret = <<[delivered |-> FALSE,
                                                     error |-> ErrNoPending]>>]]
        ELSE LET pending == MapGet(st.pendingMessages, messageId)
                 found == [frame EXCEPT !.pending = <<pending>>,
                                       !.requestPc = st.sends[messageId].pc,
                                       !.consumedBefore =
                                           IF messageId \in DOMAIN st.consumed
                                           THEN st.consumed[messageId].by ELSE "none"]
             IN  IF ~RegistryHas(ag, pending.fromAgentId)
                 THEN [st |-> PendingReject(st, messageId, ErrSenderGone, "senderGone"),
                       frame |-> [found EXCEPT !.ret = <<[delivered |-> FALSE,
                                                          error |-> ErrSenderGone]>>]]
                 ELSE LET name == get(ag, fromAgentId).name
                          responseEvent == ResponseEvent(call, fromAgentId, name,
                                                         pending.fromAgentId, messageId,
                                                         payload)
                          message == ResponseDeliveryMessage(call, fromAgentId, name, pending,
                                                             messageId, payload)
                          s1 == deliverMessage(st, ag, pending.fromAgentId, message,
                                               responseEvent.id, 1)
                          s2 == addToHistory(s1, responseEvent)
                      IN  [st |-> broadcastEvent(s2, responseEvent),
                           frame |-> [found EXCEPT !.pc = "delivering"]]

\* variant: a response nobody waits for is dropped without a trace
HandleResponseSegment_silent(st, ag, call, frame) ==
    LET fromAgentId == frame.fromAgentId
        messageId == frame.messageId
        payload == frame.payload
    IN  IF ~RegistryHas(ag, fromAgentId)
        THEN [st |-> st,
              frame |-> [frame EXCEPT !.ret = <<[delivered |-> FALSE,
                                                 error |-> ErrResponderNotFound]>>]]
        ELSE IF ~MapHas(st.pendingMessages, messageId)
        THEN LET responseEvent == ResponseEvent(call, fromAgentId, get(ag, fromAgentId).name,
                                                "", messageId, payload)
             IN  [st |-> st,
                  frame |-> [frame EXCEPT !.ret = <<[delivered |-> FALSE,
                                                     error |-> ErrNoPending]>>]]
        ELSE LET pending == MapGet(st.pendingMessages, messageId)
                 found == [frame EXCEPT !.pending = <<pending>>,
                                       !.requestPc = st.sends[messageId].pc,
                                       !.consumedBefore =
                                           IF messageId \in DOMAIN st.consumed
                                           THEN st.consumed[messageId].by ELSE "none"]
             IN  IF ~RegistryHas(ag, pending.fromAgentId)
                 THEN [st |-> PendingReject(st, messageId, ErrSenderGone, "senderGone"),
                       frame |-> [found EXCEPT !.ret = <<[delivered |-> FALSE,
                                                          error |-> ErrSenderGone]>>]]
                 ELSE LET name == get(ag, fromAgentId).name
                          responseEvent == ResponseEvent(call, fromAgentId, name,
                                                         pending.fromAgentId, messageId,
                                                         payload)
                          s1 == addToHistory(st, responseEvent)
                          s2 == broadcastEvent(s1, responseEvent)
                          message == ResponseDeliveryMessage(call, fromAgentId, name, pending,
                                                             messageId, payload)
                      IN  [st |-> deliverMessage(s2, ag, pending.fromAgentId, message,
                                                 responseEvent.id, 1),
                           frame |-> [found EXCEPT !.pc = "delivering"]]

\* lines 319-408, up to and including the first invocation of the delivery callback:
\* the state the segment leaves and the frame of the call
HandleResponseSegment(st, ag, call, frame) ==
    LET fromAgentId == frame.fromAgentId
        messageId == frame.messageId
        payload == frame.payload
    IN  IF ~RegistryHas(ag, fromAgentId)
        THEN ResponderUnknown(st, frame)
        ELSE IF ~MapHas(st.pendingMessages, messageId)
        THEN LET responseEvent == ResponseEvent(call, fromAgentId, get(ag, fromAgentId).name,
                                                "", messageId, payload)
             IN  [st |-> broadcastEvent(addToHistory(st, responseEvent), responseEvent),
                  frame |-> [frame EXCEPT !.ret = <<[delivered |-> FALSE,
                                                     error |-> ErrNoPending]>>]]
        ELSE LET pending == MapGet(st.pendingMessages, messageId)
                 found == [frame EXCEPT !.pending = <<pending>>,
                                       !.requestPc = st.sends[messageId].pc,
                                       !.consumedBefore =
                                           IF messageId \in DOMAIN st.consumed
                                           THEN st.consumed[messageId].by ELSE "none"]
             IN  IF ~RegistryHas(ag, pending.fromAgentId)
                 THEN [st |-> PendingReject(st, messageId, ErrSenderGone, "senderGone"),
                       frame |-> [found EXCEPT !.ret = <<[delivered |-> FALSE,
                                                          error |-> ErrSenderGone]>>]]
                 ELSE LET name == get(ag, fromAgentId).name
                          responseEvent == ResponseEvent(call, fromAgentId, name,
                                                         pending.fromAgentId, messageId,
                                                         payload)
                          s1 == addToHistory(st, responseEvent)
                          s2 == broadcastEvent(s1, responseEvent)
                          message == ResponseDeliveryMessage(call, fromAgentId, name, pending,
                                                             messageId, payload)
                      IN  [st |-> deliverMessage(s2, ag, pending.fromAgentId, message,
                                                 responseEvent.id, 1),
                           frame |-> [found EXCEPT !.pc = "delivering"]]

\* variant: the responder's success flag is replaced by the outcome of the re-delivery
ResponseDelivered_successLost(st, frame, t) ==
    PendingResolve(st, frame.messageId,
                   [ok |-> TRUE, messageId |-> frame.messageId,
                    targetAgentId |-> frame.pending[1].toAgentId,
                    response |-> frame.payload.response,
                    responseData |-> frame.payload.data,
                    responseSuccess |-> TRUE,
                    responseReceivedAt |-> t,
                    error |-> frame.payload.error],
                   "response")

\* lines 410-427: the response was delivered to the original sender
ResponseDelivered(st, frame, t) ==
    PendingResolve(st, frame.messageId,
                   [ok |-> TRUE, messageId |-> frame.messageId,
                    targetAgentId |-> frame.pending[1].toAgentId,
                    response |-> frame.payload.response,
                    responseData |-> frame.payload.data,
                    responseSuccess |-> frame.payload.success,
                    responseReceivedAt |-> t,
                    error |-> frame.payload.error],
                   "response")

\* lines 428-444: the catch block
ResponseUndelivered(st, frame) ==
    PendingResolve(st, frame.messageId,
                   [ok |-> FALSE, messageId |-> frame.messageId,
                    targetAgentId |-> frame.pending[1].toAgentId,
                    response |-> frame.payload.response,
                    responseData |-> frame.payload.data,
                    responseSuccess |-> frame.payload.success,
                    error |-> ErrResponseUndelivered],
                   "response")

\* A call that returns without suspending leaves its return value in lastReturn, with
\* what held when it was made; a call that suspends gets a frame in `responses`.
HandleResponse(fromAgentId, messageId, payload) ==
    /\ calls < MaxCalls
    /\ Inputs < MaxInputs
    /\ LET call == calls + 1
           out == HandleResponseSegment(Cur, agents, call,
                      ResponseFrame(call, fromAgentId, messageId, payload))
       IN  /\ Commit(out.st)
           /\ calls' = IF RegistryHas(agents, fromAgentId) THEN calls + 1 ELSE calls
           /\ IF out.frame.pc = "returned"
              THEN /\ lastReturn' =
                          [call |-> "handleResponse",
                           fromAgentId |-> fromAgentId,
                           messageId |-> messageId,
                           payload |-> payload,
                           responderRegistered |-> RegistryHas(agents, fromAgentId),
                           pendingFound |-> MapHas(pendingMessages, messageId),
                           consumedBefore |-> IF messageId \in DOMAIN consumed
                                              THEN consumed[messageId].by ELSE "none",
                           resultBefore |-> IF messageId \in DOMAIN sends
                                            THEN sends[messageId].result ELSE <<>>,
                           delivered |-> out.frame.ret[1].delivered,
                           error |-> out.frame.ret[1].error]
                   /\ UNCHANGED responses
              ELSE /\ responses' = Append(responses, out.frame)
                   /\ lastReturn' = NoReturn
    /\ UNCHANGED <<registryVars, timeoutChecker, nextSweep, now, uuid, bcasts, failures>>

RespDeliveryOk(call) ==
    /\ responses[call].pc = "delivering"
    /\ Commit(ResponseDelivered(Cur, responses[call], now))
    /\ responses' = [responses EXCEPT
                        ![call].pc = "returned",
                        ![call].consumedIt = MapHas(pendingMessages, responses[call].messageId),
                        ![call].ret = <<[delivered |-> TRUE]>>]
    /\ lastReturn' = NoReturn
    /\ UNCHANGED <<registryVars, timeoutChecker, nextSweep, now, uuid, bcasts,
                   calls, failures>>

RespDeliveryFail(call, jitter) ==
    /\ responses[call].pc = "delivering"
    /\ failures < MaxFailures
    /\ Inputs < MaxInputs
    /\ failures' = failures + 1
    /\ IF Exhausted(responses[call].attempt)
       THEN /\ Commit(ResponseUndelivered(Cur, responses[call]))
            /\ responses' = [responses EXCEPT
                                ![call].pc = "returned",
                                ![call].consumedIt =
                                    MapHas(pendingMessages, responses[call].messageId),
                                ![call].ret = <<[delivered |-> FALSE,
                                                 error |-> ErrDeliveryFailed]>>]
       ELSE /\ responses' = [responses EXCEPT ![call] = Backoff(@, jitter, now)]
            /\ UNCHANGED <<pendingMessages, messageHistory, uiEvents, firstDeliveries,
                           sends, consumed>>
    /\ lastReturn' = NoReturn
    /\ UNCHANGED <<registryVars, timeoutChecker, nextSweep, now, uuid, bcasts,
                   calls>>

RespRetry(call) ==
    /\ responses[call].pc = "backoff"
    /\ now >= responses[call].wakeAt
    /\ responses' = [responses EXCEPT ![call] = Reattempt(@)]
    /\ lastReturn' = NoReturn
    /\ UNCHANGED <<registryVars, pendingMessages, messageHistory, timeoutChecker, nextSweep,
                   now, uuid, sends, bcasts, uiEvents, firstDeliveries, consumed,
                   calls, failures>>

(***************************************************************************)
(* broadcast                                                               *)
(***************************************************************************)
BroadcastEventOf(call, ag, fromAgentId, channel, message, data) ==
    [id |-> <<"bcast", call>>,
     type |-> "agent_broadcast",
     fromAgentId |-> fromAgentId,
     fromAgentName |-> get(ag, fromAgentId).name,
     channel |-> channel,
     message |-> message,
     data |-> data]

\* lines 520-521
BroadcastTargets(ag, fromAgentId) ==
    SelectSeq(getMessageableAgents(ag),
              LAMBDA a : a.agentId # fromAgentId /\ a.status # "offline")

\* one element of deliveryPromises: deliverWithRetry for one target
TargetFrame(agentId) ==
    [agentId |-> agentId, pc |-> "delivering", attempt |-> 1, wakeAt |-> 0, delay |-> 0]

RECURSIVE DeliverToEach(_, _, _, _, _)
DeliverToEach(st, ag, targets, event, i) ==
    IF i > Len(targets) THEN st
    ELSE DeliverToEach(deliverMessage(st, ag, targets[i].agentId, event, event.id, 1),
                       ag, targets, event, i + 1)

\* lines 500-537, up to and including the first invocation of the callback for each target
BroadcastSegment(st, ag, call, fromAgentId, channel, message, data) ==
    LET event == BroadcastEventOf(call, ag, fromAgentId, channel, message, data)
        s1 == addToHistory(st, event)
        s2 == broadcastEvent(s1, event)
        targets == BroadcastTargets(ag, fromAgentId)
    IN  [st |-> DeliverToEach(s2, ag, targets, event, 1),
         frame |-> [fromAgentId |-> fromAgentId,
                    targets |-> [i \in 1..Len(targets) |-> TargetFrame(targets[i].agentId)],
                    sent |-> 0, failed |-> 0,
                    pc |-> IF Len(targets) = 0 THEN "returned" ELSE "delivering",
                    ret |-> IF Len(targets) = 0 THEN <<[sent |-> 0, failed |-> 0]>>
                            ELSE <<>>]]

\* a target's delivery has ended: it was counted in `sent` or in `failed`
Settled(target) == target.pc \in {"sent", "failed"}

\* variant: the first target that fails ends the call, as Promise.all does when the
\* promises it joins are not caught one by one
Joined_failFast(frame) ==
    IF \/ \A i \in 1..Len(frame.targets) : Settled(frame.targets[i])
       \/ \E i \in 1..Len(frame.targets) : frame.targets[i].pc = "failed"
    THEN [frame EXCEPT !.pc = "returned",
                       !.ret = <<[sent |-> frame.sent, failed |-> frame.failed]>>]
    ELSE frame

\* line 539-542: Promise.all settles once every target is done
Joined(frame) ==
    IF \A i \in 1..Len(frame.targets) : Settled(frame.targets[i])
    THEN [frame EXCEPT !.pc = "returned",
                       !.ret = <<[sent |-> frame.sent, failed |-> frame.failed]>>]
    ELSE frame

\* variant: a broadcast of an unknown sender is recorded and shown to the observers
BroadcastRefused_recorded(st, fromAgentId) ==
    LET event == [id |-> <<"bcast", 0>>, type |-> "agent_broadcast",
                  fromAgentId |-> fromAgentId, fromAgentName |-> Undefined,
                  channel |-> "general", message |-> "status?", data |-> "data"]
    IN  broadcastEvent(addToHistory(st, event), event)

\* lines 494-498: the sender is unknown, the call returns before it records anything
BroadcastRefused(st, fromAgentId) == st

Broadcast(fromAgentId) ==
    /\ calls < MaxCalls
    /\ Inputs < MaxInputs
    /\ IF ~RegistryHas(agents, fromAgentId)
       THEN /\ Commit(BroadcastRefused(Cur, fromAgentId))
            /\ lastReturn' = [call |-> "broadcast", fromAgentId |-> fromAgentId,
                              sent |-> 0, failed |-> 0]
            /\ UNCHANGED <<bcasts, calls>>
       ELSE LET out == BroadcastSegment(Cur, agents, calls + 1, fromAgentId,
                                        "general", "status?", "data")
            IN  /\ Commit(out.st)
                /\ calls' = calls + 1
                /\ bcasts' = Append(bcasts, out.frame)
                /\ lastReturn' = NoReturn
    /\ UNCHANGED <<registryVars, timeoutChecker, nextSweep, now, uuid, responses, failures>>

BcastDeliveryOk(call, i) ==
    /\ bcasts[call].targets[i].pc = "delivering"
    /\ bcasts' = [bcasts EXCEPT ![call] =
                     Joined([@ EXCEPT !.targets[i].pc = "sent", !.sent = @ + 1])]
    /\ lastReturn' = NoReturn
    /\ UNCHANGED <<registryVars, pendingMessages, messageHistory, timeoutChecker, nextSweep,
                   now, uuid, sends, responses, uiEvents, firstDeliveries, consumed,
                   calls, failures>>

BcastDeliveryFail(call, i, jitter) ==
    /\ bcasts[call].targets[i].pc = "delivering"
    /\ failures < MaxFailures
    /\ Inputs < MaxInputs
    /\ failures' = failures + 1
    /\ bcasts' = [bcasts EXCEPT ![call] =
                     IF Exhausted(@.targets[i].attempt)
                     THEN Joined([@ EXCEPT !.targets[i].pc = "failed", !.failed = @ + 1])
                     ELSE [@ EXCEPT !.targets[i] = Backoff(@, jitter, now)]]
    /\ lastReturn' = NoReturn
    /\ UNCHANGED <<registryVars, pendingMessages, messageHistory, timeoutChecker, nextSweep,
                   now, uuid, sends, responses, uiEvents, firstDeliveries, consumed,
                    calls>>

BcastRetry(call, i) ==
    /\ bcasts[call].targets[i].pc = "backoff"
    /\ now >= bcasts[call].targets[i].wakeAt
    /\ bcasts' = [bcasts EXCEPT ![call].targets[i] = Reattempt(@)]
    /\ lastReturn' = NoReturn
    /\ UNCHANGED <<registryVars, pendingMessages, messageHistory, timeoutChecker, nextSweep,
                   now, uuid, sends, responses, uiEvents, firstDeliveries, consumed,
                   calls, failures>>

(***************************************************************************)
(* The system                                                              *)
(***************************************************************************)
Init ==
    /\ agents = <<>>
    /\ regOps = 0
    /\ changeCallbacks = <<>>
    /\ notified = NoNotification
    /\ pendingMessages = <<>>
    /\ messageHistory = <<>>
    /\ timeoutChecker = TRUE
    /\ nextSweep = sweepIntervalMs
    /\ now = 0
    /\ uuid = 0
    /\ sends = <<>>
    /\ responses = <<>>
    /\ bcasts = <<>>
    /\ uiEvents = <<>>
    /\ firstDeliveries = {}
    /\ consumed = <<>>
    /\ lastReturn = NoReturn
    /\ calls = 0
    /\ failures = 0

\* the delivery callback settles, a backoff timer fires
SendProgressWith(jitters) ==
    \/ \E messageId \in DOMAIN sends : SendDeliveryOk(messageId)
    \/ \E messageId \in DOMAIN sends, jitter \in jitters : SendDeliveryFail(messageId, jitter)
    \/ \E messageId \in DOMAIN sends : SendRetry(messageId)

SendProgress == SendProgressWith(Jitters)

ResponseProgress ==
    \/ \E call \in DOMAIN responses : RespDeliveryOk(call)
    \/ \E call \in DOMAIN responses, jitter \in LongestJitter :
          RespDeliveryFail(call, jitter)
    \/ \E call \in DOMAIN responses : RespRetry(call)

BroadcastProgress ==
    \/ \E call \in DOMAIN bcasts : \E i \in DOMAIN bcasts[call].targets : BcastDeliveryOk(call, i)
    \/ \E call \in DOMAIN bcasts : \E i \in DOMAIN bcasts[call].targets, jitter \in Jitters :
          BcastDeliveryFail(call, i, jitter)
    \/ \E call \in DOMAIN bcasts : \E i \in DOMAIN bcasts[call].targets : BcastRetry(call, i)

\* Request/response correlation: A asks, B answers, either may leave the registry,
\* the sweep runs and the router may be shut down at any time.  Sleeps take the longest
\* jitter: the jitter changes how long a sleep lasts, never what follows it.
Next ==
    \/ \E r \in Correspondents : Register(r.request, r.session)
    \/ \E agentId \in Leavers : Unregister(agentId)
    \/ \E fromAgentId \in Senders, request \in DirectRequests : SendMessage(fromAgentId, request)
    \/ SendProgressWith(LongestJitter)
    \/ \E fromAgentId \in Responders, messageId \in 1..uuid, payload \in ResponsePayloads :
          HandleResponse(fromAgentId, messageId, payload)
    \/ ResponseProgress
    \/ CheckTimeouts
    \/ Destroy
    \/ Tick

Spec == Init /\ [][Next]_vars

\* Target selection: every kind of registration and status change, with requests that
\* expect no response (lines 132-167 do not read expectsResponse) and broadcasts.
NextRouting ==
    \/ \E r \in Registrations : Register(r.request, r.session)
    \/ \E agentId \in Leavers : Unregister(agentId)
    \/ \E agentId \in Responders, status \in StatusUpdates : UpdateStatus(agentId, status)
    \/ \E fromAgentId \in Senders, request \in FireAndForget : SendMessage(fromAgentId, request)
    \/ SendProgress
    \/ \E fromAgentId \in Senders : Broadcast(fromAgentId)
    \/ BroadcastProgress
    \/ Tick

SpecRouting == Init /\ [][NextRouting]_vars

(***************************************************************************)
(* Lookups: target resolution and findBestForCapability over registries    *)
(***************************************************************************)
\* the entries an agent can have in the registries the lookups are run on
LookupEntries(agentId) ==
    LET entry(status, lastActivity, acceptsMessages, capabilities) ==
            RegistryEntry([agentId |-> agentId, name |-> agentId,
                           capabilities |-> capabilities, metadata |-> "meta",
                           acceptsMessages |-> acceptsMessages],
                          [status |-> status, cwd |-> "/repo",
                           lastActivity |-> lastActivity])
        statuses == {"idle", "working", "waiting", "offline"}
    IN  IF agentId = "A"
        THEN {entry(s, 5, TRUE, <<"general", "testing">>) : s \in statuses}
        ELSE {entry(s, t, a, c) :
                  s \in statuses,
                  t \in IF agentId = "B" THEN {5, 10} ELSE {5, 8},
                  a \in BOOLEAN,
                  c \in {<<"general">>, <<"general", "testing">>}}

\* the orders in which some of the agents were registered
RegistrationOrders ==
    {o \in UNION {[1..n -> AgentIds] : n \in 0..Cardinality(AgentIds)} :
        \A i, j \in 1..Len(o) : o[i] = o[j] => i = j}

\* the requests whose target is resolved
LookupRequests ==
    {r @@ [message |-> "run suite", expectsResponse |-> FALSE] :
        r \in {[toAgentId |-> "B"],
               [toAgentId |-> "B", toCapability |-> "testing"],
               [toAgentId |-> "", toCapability |-> "testing"],
               [toCapability |-> "testing"],
               [toCapability |-> "security"],
               [message |-> "run suite"]}}

\* the agents findBestForCapability is asked to leave out
Excluded == {Undefined, "A", "C"}

\* The registry these registrations leave (one entry of each agent, in the order of the
\* registrations) and a router that was just constructed, with one call left to make.
InitLookup ==
    /\ \E o \in RegistrationOrders :
          LET RECURSIVE registered(_)
              registered(order) ==
                  IF order = <<>> THEN {<<>>}
                  ELSE {Append(earlier, <<order[Len(order)], entry>>) :
                           earlier \in registered(SubSeq(order, 1, Len(order) - 1)),
                           entry \in LookupEntries(order[Len(order)])}
          IN  agents \in registered(o)
    /\ regOps = Len(agents)
    /\ changeCallbacks = <<>>
    /\ notified = Notification(Len(agents), <<>>, <<>>, FALSE)
    /\ pendingMessages = <<>>
    /\ messageHistory = <<>>
    /\ timeoutChecker = TRUE
    /\ nextSweep = sweepIntervalMs
    /\ now = 0
    /\ uuid = 0
    /\ sends = <<>>
    /\ responses = <<>>
    /\ bcasts = <<>>
    /\ uiEvents = <<>>
    /\ firstDeliveries = {}
    /\ consumed = <<>>
    /\ lastReturn = NoReturn
    /\ calls = MaxCalls - 1
    /\ failures = 0

NextLookup ==
    \/ \E fromAgentId \in Senders, request \in LookupRequests :
           SendMessage(fromAgentId, request)
    \/ \E excludeAgentId \in Excluded : FindBestForCapability("testing", excludeAgentId)

SpecLookup == InitLookup /\ [][NextLookup]_vars

(***************************************************************************)
(* Runs that start from a registry filled before the router was built      *)
(***************************************************************************)
\* A router that was just constructed over the registry `ag`, or one that has emitted
\* the events `earlier` in calls that returned long ago; `made` of the calls the run may
\* make are taken to be used up.  The other counters count what the run adds.
Started(ag, earlier, made) ==
    /\ agents = ag
    /\ regOps = 0
    /\ changeCallbacks = <<>>
    /\ notified = NoNotification
    /\ pendingMessages = <<>>
    /\ messageHistory = earlier
    /\ timeoutChecker = TRUE
    /\ nextSweep = sweepIntervalMs
    /\ now = 0
    /\ uuid = 0
    /\ sends = <<>>
    /\ responses = <<>>
    /\ bcasts = <<>>
    /\ uiEvents = earlier
    /\ firstDeliveries = {}
    /\ consumed = <<>>
    /\ lastReturn = NoReturn
    /\ calls = made
    /\ failures = 0

\* the registry after register() for A and then for B
TwoAgents ==
    LET r(agentId) == CHOOSE c \in Correspondents : c.request.agentId = agentId
    IN  MapSet(MapSet(<<>>, "A", RegistryEntry(r("A").request, r("A").session)),
               "B", RegistryEntry(r("B").request, r("B").session))

\* the requests A sends to B: expecting a response, expecting none, and not saying
CallRequests ==
    DirectRequests \cup {[toAgentId |-> b, message |-> "run suite"] : b \in Responders}

InitCalls == Started(TwoAgents, <<>>, 0)

\* The three calls of the router between two registered agents, with a delivery
\* callback that may fail at any attempt.
NextCalls ==
    \/ \E fromAgentId \in Senders, request \in CallRequests : SendMessage(fromAgentId, request)
    \/ SendProgressWith(LongestJitter)
    \/ \E fromAgentId \in Responders, messageId \in 1..uuid, payload \in ResponsePayloads :
          HandleResponse(fromAgentId, messageId, payload)
    \/ ResponseProgress
    \/ \E fromAgentId \in Senders : Broadcast(fromAgentId)
    \/ BroadcastProgress
    \/ Tick

SpecCalls == InitCalls /\ [][NextCalls]_vars

\* the events of n broadcasts A made before the run, oldest first
EarlierEvents(n) ==
    [i \in 1..n |-> BroadcastEventOf(i - n, TwoAgents, "A", "general", "status?", "data")]

\* a router whose history is empty, one short of full, or full
InitHistory ==
    \E n \in {0, maxHistorySize - 1, maxHistorySize} : Started(TwoAgents, EarlierEvents(n), 0)

\* The calls that write to the history.  Deliveries succeed here: the history is written
\* before the first delivery attempt of a call and by nothing after it.
NextHistory ==
    \/ \E fromAgentId \in Senders, request \in DirectRequests : SendMessage(fromAgentId, request)
    \/ \E messageId \in DOMAIN sends : SendDeliveryOk(messageId)
    \/ \E fromAgentId \in Responders, messageId \in 1..uuid, payload \in ResponsePayloads :
          HandleResponse(fromAgentId, messageId, payload)
    \/ \E call \in DOMAIN responses : RespDeliveryOk(call)
    \/ \E fromAgentId \in Senders : Broadcast(fromAgentId)
    \/ \E call \in DOMAIN bcasts : \E i \in DOMAIN bcasts[call].targets : BcastDeliveryOk(call, i)

SpecHistory == InitHistory /\ [][NextHistory]_vars

\* the entries an agent can have when a broadcast is made; <<>> is an agent that never
\* registered
BroadcastEntries(agentId) ==
    LET entry(status, acceptsMessages) ==
            <<RegistryEntry([agentId |-> agentId, name |-> agentId,
                             capabilities |-> <<"general">>, metadata |-> "meta",
                             acceptsMessages |-> acceptsMessages],
                            [status |-> status, cwd |-> "/repo", lastActivity |-> 5])>>
    IN  CASE agentId = "A" -> {entry("idle", TRUE), <<>>}
          [] agentId = "B" -> {entry("idle", TRUE), entry("offline", TRUE)}
          [] agentId = "C" -> {entry("working", TRUE), entry("idle", FALSE)}
          [] agentId = "D" -> {entry("waiting", TRUE), <<>>}

RECURSIVE RegistryOf(_, _)
RegistryOf(order, entries) ==
    IF order = <<>> THEN <<>>
    ELSE LET rest == RegistryOf(SubSeq(order, 1, Len(order) - 1), entries)
             last == entries[order[Len(order)]]
         IN  IF last = <<>> THEN rest ELSE Append(rest, <<order[Len(order)], last[1]>>)

\* the registries of A, B, C and D, registered with the sender first or last
BroadcastRegistries ==
    LET ids == {"A", "B", "C", "D"}
    IN  {RegistryOf(order, entries) :
            order \in {<<"A", "B", "C", "D">>, <<"B", "C", "D", "A">>},
            entries \in {f \in [ids -> UNION {BroadcastEntries(a) : a \in ids}] :
                            \A a \in ids : f[a] \in BroadcastEntries(a)}}

\* a router over one of these registries, with one accepted call left to make
InitBroadcast == \E ag \in BroadcastRegistries : Started(ag, <<>>, MaxCalls - 1)

\* A broadcasts; agents may leave while the deliveries are under way.
NextBroadcast ==
    \/ \E fromAgentId \in Senders : Broadcast(fromAgentId)
    \/ BroadcastProgress
    \/ \E agentId \in Leavers : Unregister(agentId)
    \/ Tick

SpecBroadcast == InitBroadcast /\ [][NextBroadcast]_vars

\* Every call of the registry's interface, on a registry that starts empty; the router
\* is idle.
NextRegistry ==
    \/ \E request \in RegistrationRequests : RegisterAgent(request)
    \/ \E session \in ManagedSessions : RegisterFromSession(session)
    \/ \E session \in ManagedSessions : UpdateFromSession(session)
    \/ \E agentId \in RegistryIds : UnregisterCall(agentId)
    \/ \E agentId \in RegistryIds : UpdateStatusCall(agentId, "working")
    \/ Clear
    \/ \E callback \in Callbacks : OnChange(callback)
    \/ \E callback \in Callbacks : Unsubscribe(callback)

SpecRegistry == Init /\ [][NextRegistry]_vars

\* a router over the registry after register() for A and B, or for A, B and then C
InitResponders ==
    LET c == CHOOSE r \in Registrations :
                 r.request.agentId = "C" /\ ~Has(r.request, "acceptsMessages")
        ThreeAgents == MapSet(TwoAgents, "C", RegistryEntry(c.request, c.session))
    IN  \E ag \in {TwoAgents, ThreeAgents} : Started(ag, <<>>, 0)

\* A sends requests to B; responses are submitted in B's name and in C's, which is
\* registered in some runs and unknown in the others.
NextResponders ==
    \/ \E fromAgentId \in Senders, request \in DirectRequests : SendMessage(fromAgentId, request)
    \/ \E messageId \in DOMAIN sends : SendDeliveryOk(messageId)
    \/ \E fromAgentId \in {"B", "C"}, messageId \in 1..uuid, payload \in ResponsePayloads :
          HandleResponse(fromAgentId, messageId, payload)
    \/ \E call \in DOMAIN responses : RespDeliveryOk(call)

SpecResponders == InitResponders /\ [][NextResponders]_vars

\* A sends every kind of request while B goes offline, A or B leaves and C registers,
\* with or without accepting messages: requests are accepted and refused in turn.
NextRefusals ==
    \/ \E r \in Registrations \ Correspondents : Register(r.request, r.session)
    \/ \E agentId \in Leavers : Unregister(agentId)
    \/ \E agentId \in Responders, status \in StatusUpdates : UpdateStatus(agentId, status)
    \/ \E fromAgentId \in Senders, request \in SendRequests : SendMessage(fromAgentId, request)
    \/ \E messageId \in DOMAIN sends : SendDeliveryOk(messageId)

SpecRefusals == InitCalls /\ [][NextRefusals]_vars

\* Requests to B that expect a response within a short time or within one clock
\* advance and are never answered, the clock and the sweep.
NextSweep ==
    \/ \E fromAgentId \in Senders, toAgentId \in Responders, responseTimeout \in {100, TickMs} :
           SendMessage(fromAgentId, [toAgentId |-> toAgentId, message |-> "run suite",
                                     expectsResponse |-> TRUE,
                                     responseTimeout |-> responseTimeout])
    \/ \E messageId \in DOMAIN sends : SendDeliveryOk(messageId)
    \/ Tick
    \/ CheckTimeouts

SpecSweep == InitCalls /\ [][NextSweep]_vars

\* a word as it is typed in capitals
Capitals(word) ==
    [i \in 1..Len(word) |->
        IF \E k \in 1..Len(LowerCase) : LowerCase[k] = word[i]
        THEN UpperCase[CHOOSE k \in 1..Len(LowerCase) : LowerCase[k] = word[i]]
        ELSE word[i]]

\* Sessions of one agent under the names above and under a word in capitals followed by
\* an ending. The words are every keyword of the rules, a word that holds none and the
\* empty word.
NamedSessions ==
    LET NameWords == UNION {KeywordRules[n].keywords : n \in 1..Len(KeywordRules)}
                     \cup {<<"m", "a", "i", "n">>, <<>>}
        NameEndings == {<<>>, <<"m", "a", "i", "n">>, <<"u", "i">>, <<"a", "p", "i">>,
                        <<"d", "b">>, <<"s", "p", "e", "c">>, <<"c", "i">>,
                        <<"a", "u", "t", "h">>}
    IN  [id : {"A"},
         name : SessionNames \cup {Capitals(w) \o e : w \in NameWords, e \in NameEndings},
         status : {"idle"}, cwd : {"/repo"}, lastActivity : {5}]

\* The agent is registered from its session, again and again under other names.
NextInference == \E session \in NamedSessions : RegisterFromSession(session)

SpecInference == Init /\ [][NextInference]_vars

\* Requests, their answers, the sweep, and destroy() called any number of times.
\* Deliveries succeed here.
NextShutdown ==
    \/ \E fromAgentId \in Senders, request \in DirectRequests : SendMessage(fromAgentId, request)
    \/ \E messageId \in DOMAIN sends : SendDeliveryOk(messageId)
    \/ \E fromAgentId \in Responders, messageId \in 1..uuid, payload \in ResponsePayloads :
          HandleResponse(fromAgentId, messageId, payload)
    \/ \E call \in DOMAIN responses : RespDeliveryOk(call)
    \/ Tick
    \/ CheckTimeouts
    \/ DestroyCall

SpecShutdown == InitCalls /\ [][NextShutdown]_vars

(***************************************************************************)
(* Properties                                                              *)
(***************************************************************************)
\* the delivery step of sendMessage: the callback is in flight or the backoff is running
InDeliveryStep(pc) == pc \in {"delivering", "backoff"}

\* a handleResponse call that has not returned holds the PendingMessage object of messageId
HeldByResponse(messageId) ==
    \E i \in 1..Len(responses) :
        responses[i].messageId = messageId /\ responses[i].pc # "returned"

\* no handleResponse call got hold of the PendingMessage of messageId
NoResponseFor(messageId) ==
    \A i \in 1..Len(responses) : responses[i].messageId # messageId

\* The caller awaits a promise whose resolver nothing can reach any more: the
\* PendingMessage left the map and no running call holds the object.
Stuck(messageId) ==
    /\ sends[messageId].pc = "suspended"
    /\ ~MapHas(pendingMessages, messageId)
    /\ ~HeldByResponse(messageId)

\* which event a result comes from
SettledBy(result) ==
    IF "response" \in DOMAIN result THEN "response"
    ELSE IF result.error = ErrResponseTimeout THEN "timeout"
    ELSE IF result.error = ErrRouterCleared THEN "shutdown"
    ELSE IF result.error = ErrSenderGone THEN "senderGone"
    ELSE "failure"

\* C1: when a response for a request was processed while sendMessage was still in its
\* delivery step and the delivery then succeeded, the caller has returned with a result
\* that carries the response.
C1_ResponseDuringDeliveryReachesCaller ==
    \A m \in DOMAIN consumed :
        ( /\ consumed[m].by = "response"
          /\ InDeliveryStep(consumed[m].pc)
          /\ sends[m].pendingPromiseResolve
          /\ ~HeldByResponse(m) )
        => /\ sends[m].pc = "returned"
           /\ "response" \in DOMAIN sends[m].result[1]

\* C2: the pending map holds at most one PendingMessage per messageId, filed under its
\* own id, and a messageId whose request was consumed (by a response, the sweep, a
\* delivery failure or shutdown) has no PendingMessage in the map ever after.
C2_OnePendingPerIdNeverRecreated ==
    /\ \A i, j \in 1..Len(pendingMessages) :
           pendingMessages[i][1] = pendingMessages[j][1] => i = j
    /\ \A i \in 1..Len(pendingMessages) :
           pendingMessages[i][2].messageId = pendingMessages[i][1]
    /\ \A m \in DOMAIN consumed : ~MapHas(pendingMessages, m)

\* a request was consumed and the request of a later call is pending
C2_Witness ==
    \E m \in DOMAIN consumed :
        \E i \in 1..Len(pendingMessages) : pendingMessages[i][1] > m

\* C3: once the request of a call was consumed and the call is out of its delivery
\* step, the caller's result is settled, and by the event that consumed the request.
C3_SettledByFirstEvent ==
    \A m \in DOMAIN consumed :
        (~InDeliveryStep(sends[m].pc) /\ ~HeldByResponse(m))
        => /\ sends[m].result # <<>>
           /\ SettledBy(sends[m].result[1]) = consumed[m].by

\* C4: a request no response arrived for and that the sweep found expired has its
\* caller returned with ok=false and the timeout error, and is out of the map.
C4_SweepReleasesCaller ==
    \A m \in DOMAIN consumed :
        ( /\ consumed[m].by = "timeout"
          /\ NoResponseFor(m)
          /\ ~InDeliveryStep(sends[m].pc) )
        => /\ sends[m].pc = "returned"
           /\ ~sends[m].result[1].ok
           /\ sends[m].result[1].error = ErrResponseTimeout
           /\ ~MapHas(pendingMessages, m)

\* C5: no call whose request destroy() rejected is left awaiting a promise that
\* nothing can settle.
C5_NoCallerStuckAfterDestroy ==
    \A m \in DOMAIN consumed : consumed[m].by = "shutdown" => ~Stuck(m)

\* C6: at the first invocation of the delivery callback for a message that expects a
\* response, the PendingMessage of its messageId is in the pending map.
C6_PendingRegisteredBeforeDelivery ==
    /\ \A d \in firstDeliveries :
           (d.owner[1] = "send" /\ d.message.expectsResponse) => d.pendingRegistered
    /\ \A m \in DOMAIN sends : \E d \in firstDeliveries : d.owner = <<"send", m>>

\* the delivery callback was invoked for a message that expects a response
C6_Witness ==
    \E d \in firstDeliveries :
        d.owner[1] = "send" /\ d.message.expectsResponse /\ d.pendingRegistered

\* C7: at the first invocation of the delivery callback for a message, the message is
\* in the history and was handed to the event broadcast; every call that passed
\* validation has done both, whatever became of its delivery.
C7_HistoryAndBroadcastBeforeDelivery ==
    /\ \A d \in firstDeliveries : d.owner[1] = "send" => d.inHistory /\ d.broadcasted
    /\ \A m \in DOMAIN sends :
           /\ \E d \in firstDeliveries : d.owner = <<"send", m>>
           /\ HasEvent(uiEvents, <<"send", m>>)
           /\ Len(messageHistory) < maxHistorySize => HasEvent(messageHistory, <<"send", m>>)

\* one call returned after its delivery failed for good, another after it succeeded
C7_Witness ==
    /\ \E m \in DOMAIN sends :
           /\ sends[m].pc = "returned"
           /\ sends[m].attempt = maxAttempts
           /\ ~sends[m].result[1].ok
           /\ sends[m].result[1].error = ErrDeliveryFailed
           /\ \E d \in firstDeliveries : d.owner = <<"send", m>> /\ d.inHistory
    /\ \E m \in DOMAIN sends : sends[m].pc = "suspended"

\* what C8 promises the caller of the request a returned handleResponse call answered
RoundTripDone(r) ==
    LET s == sends[r.messageId]
    IN  /\ s.pc = "returned"
        /\ s.result[1].ok
        /\ "response" \in DOMAIN s.result[1]
        /\ s.result[1].response = r.payload.response
        /\ s.result[1].responseSuccess = r.payload.success
        /\ s.result[1].responseData = r.payload.data
        /\ ~MapHas(pendingMessages, r.messageId)

C9_SecondResponseRefused ==
    /\ (lastReturn.call = "handleResponse" /\ lastReturn.consumedBefore = "response")
       => /\ ~lastReturn.delivered
          /\ lastReturn.responderRegistered => lastReturn.error = ErrNoPending
          /\ sends[lastReturn.messageId].result = lastReturn.resultBefore
    /\ \A i \in 1..Len(responses) : responses[i].consumedBefore # "response"

\* the second call came after the caller had obtained the first response
C9_Witness ==
    /\ lastReturn.call = "handleResponse"
    /\ lastReturn.consumedBefore = "response"
    /\ lastReturn.responderRegistered
    /\ lastReturn.resultBefore # <<>>
    /\ lastReturn.resultBefore[1].ok

\* C10: the delivery callback is never first invoked, for a message or a broadcast, for
\* an agent that is unregistered, has acceptsMessages=false or is offline at that time.
C10_OnlyMessageableTargets ==
    \A d \in firstDeliveries :
        d.owner[1] \in {"send", "bcast"}
        => d.registered /\ d.acceptsMessages /\ ~d.offline

\* a direct message to an agent that opted out was refused, after a broadcast and a
\* message routed by capability had been delivered
C10_Witness ==
    /\ lastReturn.call = "sendMessage"
    /\ lastReturn.error \in {ErrTargetNotAccepting, ErrTargetOffline}
    /\ \E d \in firstDeliveries : d.owner[1] = "bcast"
    /\ \E d \in firstDeliveries : d.owner[1] = "send" /\ d.message.routing = "capability"

\* the outcome the validation rules give, in their order of precedence; "none" when the
\* request passes
ValidationError(ag, fromAgentId, request) ==
    IF ~\E i \in 1..Len(ag) : ag[i][1] = fromAgentId THEN ErrSenderNotFound
    ELSE IF Given(request, "toAgentId")
    THEN LET found == {i \in 1..Len(ag) : ag[i][1] = request.toAgentId}
         IN  IF found = {} THEN ErrTargetNotFound
             ELSE IF \E i \in found : ~ag[i][2].acceptsMessages THEN ErrTargetNotAccepting
             ELSE IF \E i \in found : ag[i][2].status = "offline" THEN ErrTargetOffline
             ELSE "none"
    ELSE IF Given(request, "toCapability")
    THEN IF findBestForCapability(ag, request.toCapability, fromAgentId) = <<>>
         THEN ErrNoCapabilityMatch ELSE "none"
    ELSE ErrMissingRoutingTarget

\* C11: a sendMessage call that is refused returns the error the validation rules give
\* in their order of precedence (sender, then target found / accepting / online for a
\* given toAgentId, else capability match for a given toCapability, else missing
\* target), and a call that is accepted breaks none of them.
C11_ValidationPrecedence ==
    /\ lastReturn.call = "sendMessage"
       => /\ ~lastReturn.ok
          /\ lastReturn.error = ValidationError(agents, lastReturn.fromAgentId,
                                                lastReturn.request)
    /\ \A m \in DOMAIN sends :
           ValidationError(agents, sends[m].fromAgentId, sends[m].request) = "none"

\* a direct target that is both opted out and offline was refused as not accepting
C11_Witness ==
    /\ lastReturn.call = "sendMessage"
    /\ lastReturn.error = ErrTargetNotAccepting
    /\ Given(lastReturn.request, "toAgentId")
    /\ Has(lastReturn.request, "toCapability")
    /\ get(agents, lastReturn.request.toAgentId).status = "offline"

\* the messages sendMessage emitted, to history, to the event broadcast and to the
\* delivery callback
EmittedMessages ==
    {messageHistory[i] : i \in {j \in 1..Len(messageHistory) :
                                   messageHistory[j].id[1] = "send"}}
    \cup {uiEvents[i] : i \in {j \in 1..Len(uiEvents) : uiEvents[j].id[1] = "send"}}
    \cup {d.message : d \in {e \in firstDeliveries : e.owner[1] = "send"}}

\* C12: every message sendMessage emits has exactly one of toAgentId / toCapability set:
\* toAgentId alone when routing is direct, toCapability alone when it is capability.
C12_ExactlyOneAddressField ==
    \A e \in EmittedMessages :
        /\ (e.toAgentId # Undefined) # (e.toCapability # Undefined)
        /\ e.routing = "direct" <=> e.toAgentId # Undefined
        /\ e.routing = "capability" <=> e.toCapability # Undefined

\* the agents findBestForCapability has to choose from
Candidates(ag, capability, excludeAgentId) ==
    {ag[i][2] : i \in {j \in 1..Len(ag) :
                          /\ \E c \in 1..Len(ag[j][2].capabilities) :
                                 ag[j][2].capabilities[c] = capability
                          /\ ag[j][2].acceptsMessages
                          /\ ag[j][2].status # "offline"
                          /\ ag[j][2].agentId # excludeAgentId}}

\* idle < working < waiting < offline
StatusRank(status) ==
    CASE status = "idle" -> 0
      [] status = "working" -> 1
      [] status = "waiting" -> 2
      [] status = "offline" -> 3

\* the registry of the example: A(idle, t=5), B(working, t=10), C(idle, t=8), all with
\* the capability and accepting messages
IsExampleRegistry(ag) ==
    /\ Len(ag) = 3
    /\ \A i \in 1..3 :
           /\ ag[i][2].acceptsMessages
           /\ ag[i][2].capabilities = <<"general", "testing">>
           /\ <<ag[i][1], ag[i][2].status, ag[i][2].lastActivity>>
                  \in {<<"A", "idle", 5>>, <<"B", "working", 10>>, <<"C", "idle", 8>>}

\* C13: findBestForCapability returns nothing iff no agent has the capability, accepts
\* messages, is not offline and is not the excluded one; otherwise it returns such an
\* agent, of the lowest status rank and, within that rank, of the greatest lastActivity.
\* For A(idle,5), B(working,10), C(idle,8) it returns C.
C13_BestCandidate ==
    lastReturn.call = "findBestForCapability"
    => LET candidates == Candidates(agents, lastReturn.capability, lastReturn.excludeAgentId)
           result == lastReturn.result
       IN  /\ result = <<>> <=> candidates = {}
           /\ result # <<>>
              => /\ result[1] \in candidates
                 /\ \A c \in candidates :
                        \/ StatusRank(result[1].status) < StatusRank(c.status)
                        \/ /\ StatusRank(result[1].status) = StatusRank(c.status)
                           /\ result[1].lastActivity >= c.lastActivity
           /\ (IsExampleRegistry(agents) /\ lastReturn.excludeAgentId = Undefined)
              => result # <<>> /\ result[1].agentId = "C"

\* the example: with A(idle,5), B(working,10), C(idle,8) the answer was C
C13_Witness ==
    /\ lastReturn.call = "findBestForCapability"
    /\ lastReturn.excludeAgentId = Undefined
    /\ IsExampleRegistry(agents)
    /\ lastReturn.result # <<>>
    /\ lastReturn.result[1].agentId = "C"

\* the delivery of a sendMessage call gave up / got through
SendGaveUp(m) ==
    /\ sends[m].pc = "returned"
    /\ "response" \notin DOMAIN sends[m].result[1]
    /\ ~sends[m].result[1].ok
    /\ sends[m].result[1].error = ErrDeliveryFailed

SendGotThrough(m) ==
    \/ sends[m].pendingPromiseResolve
    \/ sends[m].pc = "returned" /\ ~sends[m].expectsResponse /\ sends[m].result[1].ok

\* the re-delivery of a handleResponse call gave up / got through
ResponseGaveUp(i) ==
    /\ responses[i].pc = "returned"
    /\ ~responses[i].ret[1].delivered
    /\ responses[i].ret[1].error = ErrDeliveryFailed

ResponseGotThrough(i) == responses[i].pc = "returned" /\ responses[i].ret[1].delivered

\* how many invocations of the callback failed for a delivery that is at `attempt`
FailedInvocations(attempt, failedLast) == IF failedLast THEN attempt ELSE attempt - 1

RECURSIVE SumTo(_, _)
SumTo(f, n) == IF n = 0 THEN 0 ELSE f[n] + SumTo(f, n - 1)

\* C14: a delivery invokes the callback at most 3 times; it reports a failure only
\* after the third invocation failed, it is retried only after a failure before the
\* third, and a delivery that got through at attempt k has seen exactly k - 1 failed
\* invocations and reports no failure.
C14_ThreeAttempts ==
    /\ \A m \in DOMAIN sends :
           /\ sends[m].attempt \in 1..maxAttempts
           /\ sends[m].pc = "backoff" => sends[m].attempt < maxAttempts
           /\ SendGaveUp(m) => sends[m].attempt = maxAttempts
           /\ ~(SendGaveUp(m) /\ SendGotThrough(m))
    /\ \A i \in 1..Len(responses) :
           /\ responses[i].attempt \in 1..maxAttempts
           /\ responses[i].pc = "backoff" => responses[i].attempt < maxAttempts
           /\ ResponseGaveUp(i) => responses[i].attempt = maxAttempts
    /\ Len(bcasts) = 0
       => failures =
              SumTo([m \in 1..uuid |->
                        FailedInvocations(sends[m].attempt,
                                          sends[m].pc = "backoff" \/ SendGaveUp(m))], uuid)
              + SumTo([i \in 1..Len(responses) |->
                          FailedInvocations(responses[i].attempt,
                                            \/ responses[i].pc = "backoff"
                                            \/ ResponseGaveUp(i))], Len(responses))

\* one delivery gave up after three invocations, another got through at its first
C14_Witness ==
    /\ \E m \in DOMAIN sends : SendGaveUp(m) /\ sends[m].attempt = maxAttempts
    /\ \E m \in DOMAIN sends : SendGotThrough(m) /\ sends[m].attempt = 1
    /\ failures = maxAttempts

\* the deliveries that sleep between two attempts
Sleeping ==
    {[attempt |-> sends[m].attempt, delay |-> sends[m].delay] :
        m \in {n \in DOMAIN sends : sends[n].pc = "backoff"}}
    \cup {[attempt |-> responses[i].attempt, delay |-> responses[i].delay] :
             i \in {j \in 1..Len(responses) : responses[j].pc = "backoff"}}
    \cup UNION {{[attempt |-> bcasts[c].targets[i].attempt,
                  delay |-> bcasts[c].targets[i].delay] :
                    i \in {j \in 1..Len(bcasts[c].targets) :
                              bcasts[c].targets[j].pc = "backoff"}} :
                c \in 1..Len(bcasts)}

\* the third failure is the one that is reported
ThirdFailurePropagates ==
    /\ \A m \in DOMAIN sends :
           /\ sends[m].pc = "backoff" => sends[m].attempt < maxAttempts
           /\ SendGaveUp(m) => sends[m].attempt = maxAttempts
    /\ \A i \in 1..Len(responses) :
           /\ responses[i].pc = "backoff" => responses[i].attempt < maxAttempts
           /\ ResponseGaveUp(i) => responses[i].attempt = maxAttempts

\* C15, as stated: the sleep after attempt 1 is in [1000,2000) ms, the sleep after
\* attempt 2 in [3000,4000) ms, and the failure of attempt 3 is reported.
C15_Original ==
    /\ \A f \in Sleeping :
           /\ f.attempt = 1 => f.delay >= 1000 /\ f.delay < 2000
           /\ f.attempt = 2 => f.delay >= 3000 /\ f.delay < 4000
    /\ ThirdFailurePropagates

\* C15, amended: the sleep after attempt 1 is in [1000,2000) ms, the sleep after
\* attempt 2 in [2000,3000) ms, and the failure of attempt 3 is reported.
C15_RetryTiming ==
    /\ \A f \in Sleeping :
           /\ f.attempt = 1 => f.delay >= 1000 /\ f.delay < 2000
           /\ f.attempt = 2 => f.delay >= 2000 /\ f.delay < 3000
    /\ ThirdFailurePropagates

\* one delivery sleeps after its first attempt for the shortest time it can, another
\* after its second attempt for the longest time it can
C15_Witness ==
    /\ \E f \in Sleeping : f.attempt = 1 /\ f.delay = 1000
    /\ \E f \in Sleeping : f.attempt = 2 /\ f.delay = 2999

\* C16: a sendMessage call whose delivery gave up has returned ok=false with its
\* messageId and an error, and the pending map has no entry for that messageId.
C16_FailedDeliveryLeavesNoPending ==
    \A m \in DOMAIN sends :
        (sends[m].attempt = maxAttempts /\ sends[m].pc = "returned" /\ ~SendGotThrough(m))
        => /\ ~sends[m].result[1].ok
           /\ sends[m].result[1].messageId = m
           /\ sends[m].result[1].error = ErrDeliveryFailed
           /\ ~MapHas(pendingMessages, m)

\* the delivery of a request that expected a response gave up with the request pending
C16_Witness ==
    \E m \in DOMAIN consumed :
        consumed[m].by = "failure" /\ sends[m].expectsResponse /\ SendGaveUp(m)

\* C17: when the re-delivery of a response gave up with the request still pending, the
\* caller (once out of its own delivery step) has returned ok=false with the response text, data and success flag and the
\* explanatory error, the request is out of the map and handleResponse returned
\* delivered=false.
C17_UndeliveredResponseStillResolves ==
    \A i \in 1..Len(responses) :
        ( /\ ResponseGaveUp(i)
          /\ responses[i].consumedIt
          /\ ~InDeliveryStep(sends[responses[i].messageId].pc) )
        => LET s == sends[responses[i].messageId]
           IN  /\ s.pc = "returned"
               /\ ~s.result[1].ok
               /\ "response" \in DOMAIN s.result[1]
               /\ s.result[1].response = responses[i].payload.response
               /\ s.result[1].responseData = responses[i].payload.data
               /\ s.result[1].responseSuccess = responses[i].payload.success
               /\ s.result[1].error = ErrResponseUndelivered
               /\ ~MapHas(pendingMessages, responses[i].messageId)

\* the response event of a handleResponse call, as observers got it
ResponseEventSeen(call, toAgentId, messageId) ==
    /\ \E i \in 1..Len(messageHistory) :
           /\ messageHistory[i].id = <<"resp", call>>
           /\ messageHistory[i].toAgentId = toAgentId
           /\ messageHistory[i].inResponseTo = messageId
    /\ \E i \in 1..Len(uiEvents) :
           /\ uiEvents[i].id = <<"resp", call>>
           /\ uiEvents[i].toAgentId = toAgentId
           /\ uiEvents[i].inResponseTo = messageId

\* every call that went on to re-deliver had recorded and broadcast its response event
\* when the delivery callback was first invoked
RecordedBeforeRedelivery ==
    /\ \A i \in 1..Len(responses) :
           /\ ResponseEventSeen(responses[i].call, responses[i].pending[1].fromAgentId,
                                responses[i].messageId)
           /\ \E d \in firstDeliveries : d.owner = <<"resp", responses[i].call>>
    /\ \A d \in firstDeliveries : d.owner[1] = "resp" => d.inHistory /\ d.broadcasted

C19_ResponseGoesToOriginalSender ==
    /\ \A i \in 1..Len(responses) :
           \E d \in firstDeliveries :
               /\ d.owner = <<"resp", responses[i].call>>
               /\ d.agentId = sends[responses[i].messageId].fromAgentId
               /\ d.message.toAgentId = sends[responses[i].messageId].fromAgentId
               /\ d.message.messageId = responses[i].messageId
               /\ ~d.message.expectsResponse
               /\ responses[i].fromAgentId # sends[responses[i].messageId].fromAgentId
                  => d.agentId # responses[i].fromAgentId
    /\ \A i \in 1..Len(responses) :
           /\ responses[i].attempt <= maxAttempts
           /\ ResponseGaveUp(i) <=> ( /\ responses[i].pc = "returned"
                                      /\ ~responses[i].ret[1].delivered
                                      /\ responses[i].attempt = maxAttempts )

\* a response was re-delivered at the third attempt
C19_Witness ==
    \E i \in 1..Len(responses) :
        ResponseGotThrough(i) /\ responses[i].attempt = maxAttempts

\* C20: a handleResponse call by a registered agent for a messageId without a
\* PendingMessage returns delivered=false with the 'No pending message' error, has its
\* response event in history and broadcast, and does not invoke the delivery callback.
C20_NoPendingIsRecordedNotDelivered ==
    ( /\ lastReturn.call = "handleResponse"
      /\ lastReturn.responderRegistered
      /\ ~lastReturn.pendingFound )
    => /\ ~lastReturn.delivered
       /\ lastReturn.error = ErrNoPending
       /\ ResponseEventSeen(calls, "", lastReturn.messageId)
       /\ \A d \in firstDeliveries : d.owner # <<"resp", calls>>
       /\ \A i \in 1..Len(responses) : responses[i].call # calls

\* the request had timed out when its response came
C20_Witness ==
    /\ lastReturn.call = "handleResponse"
    /\ lastReturn.responderRegistered
    /\ ~lastReturn.pendingFound
    /\ lastReturn.consumedBefore = "timeout"
    /\ ResponseEventSeen(calls, "", lastReturn.messageId)

\* the shape of what sendMessage returns: ok, and an error whenever ok is false
IsSendResult(result) ==
    /\ "ok" \in DOMAIN result
    /\ result.ok \in BOOLEAN
    /\ ~result.ok => "error" \in DOMAIN result /\ result.error # Undefined

\* the shape of what handleResponse returns: delivered, and an error whenever it is false
IsResponseResult(result) ==
    /\ "delivered" \in DOMAIN result
    /\ result.delivered \in BOOLEAN
    /\ ~result.delivered => "error" \in DOMAIN result /\ result.error # Undefined

\* the shape of what broadcast returns
IsBroadcastResult(result) ==
    /\ DOMAIN result = {"sent", "failed"}
    /\ result.sent \in Nat
    /\ result.failed \in Nat

\* C27: no sendMessage, handleResponse or broadcast call ends in an exception: a call
\* is in its delivery step, awaits its response, or has returned a structured result,
\* {ok, error} / {delivered, error} / {sent, failed}; a call refused by validation
\* returns one at once, and a delivery that failed three times is returned as one.
C27_NothingThrown ==
    /\ \A m \in DOMAIN sends :
           /\ sends[m].pc \in {"delivering", "backoff", "suspended", "returned"}
           /\ sends[m].pc = "returned" <=> sends[m].result # <<>>
           /\ sends[m].result # <<>> => IsSendResult(sends[m].result[1])
    /\ \A i \in 1..Len(responses) :
           /\ responses[i].pc \in {"delivering", "backoff", "returned"}
           /\ responses[i].pc = "returned" <=> responses[i].ret # <<>>
           /\ responses[i].ret # <<>> => IsResponseResult(responses[i].ret[1])
    /\ \A c \in 1..Len(bcasts) :
           /\ bcasts[c].pc \in {"delivering", "returned"}
           /\ bcasts[c].pc = "returned" <=> bcasts[c].ret # <<>>
           /\ bcasts[c].ret # <<>> => IsBroadcastResult(bcasts[c].ret[1])
    /\ lastReturn.call = "sendMessage" => IsSendResult(lastReturn) /\ ~lastReturn.ok
    /\ lastReturn.call = "handleResponse"
       => IsResponseResult(lastReturn) /\ ~lastReturn.delivered
    /\ lastReturn.call = "broadcast"
       => IsBroadcastResult([sent |-> lastReturn.sent, failed |-> lastReturn.failed])

\* a sendMessage call returned its third delivery failure, a broadcast returned its
\* counts, and a handleResponse call was refused
C27_Witness ==
    /\ \E m \in DOMAIN sends : SendGaveUp(m) /\ sends[m].attempt = maxAttempts
    /\ \E c \in 1..Len(bcasts) : bcasts[c].pc = "returned" /\ bcasts[c].ret[1].sent = 1
    /\ lastReturn.call = "handleResponse"
    /\ ~lastReturn.delivered

\* C29: a sendMessage call that expects no response (expectsResponse false or absent)
\* never has a PendingMessage, at its first delivery attempt or later, never waits once
\* its delivery succeeded, and a successful one has returned exactly
\* {ok: true, messageId, targetAgentId}; the pending map holds only requests that expect
\* a response.
C29_FireAndForgetReturnsAtOnce ==
    /\ \A m \in DOMAIN sends :
           ~ExpectsResponse(sends[m].request)
           => /\ ~MapHas(pendingMessages, m)
              /\ m \notin DOMAIN consumed
              /\ \A d \in firstDeliveries : d.owner = <<"send", m>> => ~d.pendingRegistered
              /\ sends[m].pc \in {"delivering", "backoff", "returned"}
              /\ ~sends[m].pendingPromiseResolve
              /\ sends[m].pc = "returned"
                 => \/ sends[m].result[1] = [ok |-> TRUE, messageId |-> m,
                                             targetAgentId |-> sends[m].targetAgentId]
                    \/ /\ SendGaveUp(m)
                       /\ sends[m].attempt = maxAttempts
    /\ \A i \in 1..Len(pendingMessages) :
           ExpectsResponse(sends[pendingMessages[i][1]].request)

\* a request that does not say whether it expects a response was delivered at the
\* second attempt and returned, while a request that expects one is pending
C29_Witness ==
    /\ \E m \in DOMAIN sends :
           /\ ~Has(sends[m].request, "expectsResponse")
           /\ sends[m].pc = "returned"
           /\ sends[m].attempt = 2
           /\ sends[m].result[1].ok
    /\ pendingMessages # <<>>

\* C23: the history never holds more than 100 entries, and it is the latest entries of
\* everything emitted, in emission order: when an event is added to a full history the
\* oldest entry is the one that goes.
C23_HistoryBoundedFifo ==
    /\ Len(messageHistory) <= maxHistorySize
    /\ LET n == Len(uiEvents)
           k == Min(n, maxHistorySize)
       IN  messageHistory = SubSeq(uiEvents, n - k + 1, n)

\* a message, a response and a broadcast were added to a full history
C23_Witness ==
    /\ Len(uiEvents) = maxHistorySize + 3
    /\ Len(messageHistory) = maxHistorySize
    /\ messageHistory[1] = uiEvents[4]
    /\ {messageHistory[i].type : i \in maxHistorySize - 2..maxHistorySize}
           = {"agent_message", "agent_message_response", "agent_broadcast"}

\* C24: after each call of destroy(), the first and the later ones, the pending map is
\* empty and the sweep timer is cleared, and no call changes a result a caller had
\* already got.
C24_DestroyTwiceIsSafe ==
    /\ [](lastReturn.call = "destroy" => pendingMessages = <<>> /\ ~timeoutChecker)
    /\ [][lastReturn'.call = "destroy"
           => \A m \in DOMAIN sends :
                  sends[m].result # <<>>
                  => sends'[m].result = sends[m].result /\ sends'[m].pc = "returned"]_vars

\* a second destroy() found a request pending, after one caller had got its response
\* and while another had been released by a destroy()
C24_Witness ==
    /\ lastReturn.call = "destroy"
    /\ lastReturn.again
    /\ lastReturn.pendingBefore > 0
    /\ \E m \in DOMAIN sends :
           sends[m].result # <<>> /\ "response" \in DOMAIN sends[m].result[1]
    /\ \E m \in DOMAIN sends :
           sends[m].result # <<>> /\ sends[m].result[1].error = ErrRouterCleared


\* the targets of a broadcast whose delivery ended in the state pc
TargetsAt(frame, pc) == {i \in 1..Len(frame.targets) : frame.targets[i].pc = pc}

\* the agents a broadcast of fromAgentId has to reach, read off the registry ag
Reachable(ag, fromAgentId) ==
    {ag[i][1] : i \in {j \in 1..Len(ag) : /\ ag[j][2].acceptsMessages
                                           /\ ag[j][2].status # "offline"
                                           /\ ag[j][1] # fromAgentId}}

\* an accepted broadcast() was called in this step
BroadcastAccepted == Len(bcasts') = Len(bcasts) + 1

\* C21: broadcast from a registered sender invokes the delivery callback once for every
\* agent that accepts messages and is not offline, the sender excepted, before anything
\* else can happen; the call returns only when every target's delivery has ended, a
\* target counts as failed only when its third attempt failed, the running counts are
\* the numbers of targets delivered and failed, and the counts returned add up to the
\* number of targets.
C21_BroadcastReachesAll ==
    /\ [][BroadcastAccepted =>
              LET frame == bcasts'[Len(bcasts')]
                  event == messageHistory'[Len(messageHistory')]
              IN  /\ {frame.targets[i].agentId : i \in 1..Len(frame.targets)}
                         = Reachable(agents, frame.fromAgentId)
                  /\ Cardinality(Reachable(agents, frame.fromAgentId)) = Len(frame.targets)
                  /\ \A a \in Reachable(agents, frame.fromAgentId) :
                         \E d \in firstDeliveries' \ firstDeliveries :
                             d.agentId = a /\ d.owner = event.id /\ d.message = event]_vars
    /\ [](\A c \in 1..Len(bcasts) :
              LET frame == bcasts[c]
              IN  /\ frame.sent = Cardinality(TargetsAt(frame, "sent"))
                  /\ frame.failed = Cardinality(TargetsAt(frame, "failed"))
                  /\ \A i \in TargetsAt(frame, "failed") :
                         frame.targets[i].attempt = maxAttempts
                  /\ frame.pc = "returned"
                         <=> TargetsAt(frame, "sent") \cup TargetsAt(frame, "failed")
                                = 1..Len(frame.targets)
                  /\ frame.pc = "returned"
                         => /\ frame.ret = <<[sent |-> frame.sent, failed |-> frame.failed]>>
                            /\ frame.sent + frame.failed = Len(frame.targets))

\* a broadcast to three agents returned {sent: 2, failed: 1}: the delivery to the first
\* target failed three times, the two after it were delivered
C21_Witness ==
    \E c \in 1..Len(bcasts) :
        /\ bcasts[c].pc = "returned"
        /\ Len(bcasts[c].targets) = 3
        /\ bcasts[c].ret = <<[sent |-> 2, failed |-> 1]>>
        /\ bcasts[c].targets[1].pc = "failed"
        /\ bcasts[c].targets[1].attempt = maxAttempts

\* C22: a broadcast whose sender is not in the registry returns {sent: 0, failed: 0} and
\* leaves the history, the events shown to the observers and the deliveries as they
\* were; every broadcast that is accepted has a registered sender.
C22_UnknownSenderIgnored ==
    [][/\ lastReturn'.call = "broadcast"
          => /\ ~RegistryHas(agents, lastReturn'.fromAgentId)
             /\ lastReturn'.sent = 0 /\ lastReturn'.failed = 0
             /\ UNCHANGED <<messageHistory, uiEvents, firstDeliveries, pendingMessages,
                            bcasts>>
       /\ BroadcastAccepted => RegistryHas(agents, bcasts'[Len(bcasts')].fromAgentId)]_vars

\* a broadcast was refused although three agents were there to receive it
C22_Witness ==
    /\ lastReturn.call = "broadcast"
    /\ ~RegistryHas(agents, lastReturn.fromAgentId)
    /\ Cardinality(Reachable(agents, lastReturn.fromAgentId)) = 3
    /\ messageHistory = <<>> /\ uiEvents = <<>> /\ firstDeliveries = {}

\* the request is routed by capability: it names a capability and no agent
ByCapability(request) == ~Given(request, "toAgentId") /\ Given(request, "toCapability")

\* the agents that can be given a message for the capability
Holders(ag, capability) ==
    {ag[i][1] : i \in {j \in 1..Len(ag) :
                          /\ \E k \in 1..Len(ag[j][2].capabilities) :
                                 ag[j][2].capabilities[k] = capability
                          /\ ag[j][2].acceptsMessages
                          /\ ag[j][2].status # "offline"}}

\* C28: a message routed by capability goes to a holder of the capability other than its
\* sender, and when the sender is registered and no other agent holds the capability the
\* call fails with NoCapabilityMatch.
C28_NeverRoutedToSender ==
    /\ \A m \in DOMAIN sends :
           ByCapability(sends[m].request)
           => /\ sends[m].targetAgentId # sends[m].fromAgentId
              /\ sends[m].targetAgentId
                     \in Holders(agents, sends[m].request.toCapability)
    /\ ( /\ lastReturn.call = "sendMessage"
          /\ ByCapability(lastReturn.request)
          /\ RegistryHas(agents, lastReturn.fromAgentId)
          /\ Holders(agents, lastReturn.request.toCapability) \subseteq {lastReturn.fromAgentId} )
       => lastReturn.error = ErrNoCapabilityMatch

\* the sender holds the capability and would have been the best choice: the message
\* went to another holder
C28_Witness ==
    \E m \in DOMAIN sends :
        /\ ByCapability(sends[m].request)
        /\ findBestForCapability(agents, sends[m].request.toCapability, Undefined)
               = <<get(agents, sends[m].fromAgentId)>>
        /\ sends[m].targetAgentId # sends[m].fromAgentId

\* C25: the registry holds at most one entry for an agentId, filed under that agentId,
\* and after register or registerFromSession the entry of the agent is the one the call
\* built, whether or not the agent was registered before.
C25_OneEntryPerAgent ==
    /\ \A i, j \in 1..Len(agents) : agents[i][1] = agents[j][1] => i = j
    /\ \A i \in 1..Len(agents) : agents[i][2].agentId = agents[i][1]
    /\ lastReturn.call \in {"register", "registerFromSession"}
       => /\ Cardinality({i \in 1..Len(agents) : agents[i][1] = lastReturn.agentId}) = 1
          /\ \A i \in 1..Len(agents) :
                 agents[i][1] = lastReturn.agentId => agents[i][2] = lastReturn.entry

\* the agent that is first in the registry was registered again after another agent
\* had joined: it is still first, with the entry of the later call
C25_Witness ==
    /\ lastReturn.call = "register"
    /\ lastReturn.existed
    /\ Len(agents) = 2
    /\ agents[1] = <<lastReturn.agentId, lastReturn.entry>>
    /\ lastReturn.entry.capabilities = <<"testing">>

\* the calls of the registry that change the agent map
Mutating(return) ==
    \/ return.call \in {"register", "registerFromSession", "updateFromSession", "clear"}
    \/ return.call \in {"unregister", "updateStatus"} /\ return.existed

\* C26: every call that changes the agent map invokes each callback subscribed at that
\* time, in order of subscription, with the list of agents as the call left it, whether
\* or not an earlier callback threw, and nothing a callback throws reaches the caller;
\* a call that finds its agent unknown changes nothing and notifies nobody.
C26_EveryMutationNotifies ==
    /\ [](/\ notified.at = regOps
           /\ ~notified.raised
           /\ Len(notified.invoked) = Len(notified.subscribers)
           /\ \A i \in 1..Len(notified.invoked) :
                  /\ notified.invoked[i].callback = notified.subscribers[i]
                  /\ regOps > 0 => notified.invoked[i].registry = getAll(agents))
    /\ [][/\ (Mutating(lastReturn')
               => /\ notified'.at = regOps + 1
                  /\ notified'.subscribers = changeCallbacks)
           /\ (lastReturn'.call \in {"unregister", "updateStatus"} /\ ~lastReturn'.existed
               => UNCHANGED <<agents, notified>>)]_vars

\* an agent was unregistered with two subscribers: the first threw, the second was still
\* handed the list, from which the agent is gone
C26_Witness ==
    /\ lastReturn.call = "unregister"
    /\ lastReturn.existed
    /\ Len(notified.invoked) = 2
    /\ notified.invoked[1].threw
    /\ ~notified.invoked[2].threw
    /\ Len(notified.invoked[2].registry) = 1
    /\ notified.invoked[2].registry[1].agentId # lastReturn.agentId

\* C30: every entry of the registry has at least one capability.
C30_AtLeastOneCapability ==
    \A i \in 1..Len(agents) : Len(agents[i][2].capabilities) >= 1

\* the character c of a name is the letter k of a keyword, in either case
SameLetter(c, k) ==
    c = k \/ \E n \in 1..Len(UpperCase) : UpperCase[n] = c /\ LowerCase[n] = k

\* the keyword occurs in the name at some position, whatever the case of the name
Occurs(keyword, name) ==
    \E start \in 1..Len(name) :
        /\ start + Len(keyword) - 1 <= Len(name)
        /\ \A j \in 1..Len(keyword) : SameLetter(name[start + j - 1], keyword[j])

\* the capabilities of the rules of which some keyword occurs in the name
Matched(name) ==
    {KeywordRules[n].capability :
        n \in {r \in 1..Len(KeywordRules) :
                  \E keyword \in KeywordRules[r].keywords : Occurs(keyword, name)}}

\* C31: the entry registerFromSession builds has 'general' and the capability of every
\* rule a keyword of which occurs in the session name in any case, nothing else, and
\* no capability twice.
C31_InferredCapabilities ==
    lastReturn.call = "registerFromSession"
    => LET capabilities == get(agents, lastReturn.agentId).capabilities
       IN  /\ {capabilities[i] : i \in 1..Len(capabilities)}
                  = {"general"} \cup Matched(lastReturn.entry.name)
           /\ \A i, j \in 1..Len(capabilities) : capabilities[i] = capabilities[j] => i = j
           /\ capabilities = lastReturn.entry.capabilities

\* "Build DB" matches two rules, one through a keyword inside a word and one through
\* upper-case letters: the agent is given general, frontend and database
C31_Witness ==
    /\ lastReturn.call = "registerFromSession"
    /\ lastReturn.entry.name = <<"B", "u", "i", "l", "d", " ", "D", "B">>
    /\ get(agents, lastReturn.agentId).capabilities = <<"general", "frontend", "database">>

\* C34: updateFromSession of a registered agent sets its status, lastActivity and cwd to
\* the session's and leaves its other fields, its place and every other entry as they
\* were; for an unknown agent it adds the entry registerFromSession builds.
C34_UpdateFromSessionFrame ==
    [][lastReturn'.call = "updateFromSession"
       => LET session == lastReturn'.session
          IN  IF RegistryHas(agents, session.id)
              THEN /\ Len(agents') = Len(agents)
                   /\ \A i \in 1..Len(agents) :
                          /\ agents'[i][1] = agents[i][1]
                          /\ agents[i][1] # session.id => agents'[i] = agents[i]
                          /\ agents[i][1] = session.id
                             => /\ agents'[i][2].agentId = agents[i][2].agentId
                                /\ agents'[i][2].name = agents[i][2].name
                                /\ agents'[i][2].capabilities = agents[i][2].capabilities
                                /\ agents'[i][2].acceptsMessages = agents[i][2].acceptsMessages
                                /\ agents'[i][2].metadata = agents[i][2].metadata
                                /\ agents'[i][2].status = session.status
                                /\ agents'[i][2].lastActivity = session.lastActivity
                                /\ agents'[i][2].cwd = session.cwd
              ELSE agents' = Append(agents, <<session.id, SessionEntry(session)>>)]_vars

\* an agent that registered as "bot" with the capability testing and opted out of
\* messages was updated from a session named "api-test": it kept what it registered and
\* took the session's status, activity time and directory
C34_Witness ==
    /\ lastReturn.call = "updateFromSession"
    /\ lastReturn.existed
    /\ lastReturn.session.name = <<"a", "p", "i", "-", "t", "e", "s", "t">>
    /\ lastReturn.session.status = "offline"
    /\ get(agents, lastReturn.agentId)
          = [agentId |-> lastReturn.agentId, name |-> <<"b", "o", "t">>,
             capabilities |-> <<"testing">>, status |-> "offline", cwd |-> "/repo",
             lastActivity |-> 5, acceptsMessages |-> FALSE, metadata |-> "meta"]

\* the deliveries of the broadcasts' targets, as <<call, target>>
Deliveries == UNION {{<<c, i>> : i \in 1..Len(bcasts[c].targets)} : c \in 1..Len(bcasts)}

\* C32: a delivery that sleeps after its failed attempt k has k < 3 and a delay of
\* min(1000 * 2^(k-1) + jitter, 10000) ms for a jitter in [0, 1000), which is at least
\* 1000 * 2^(k-1) and at most 10000; the sleep starts when the attempt fails, and
\* attempt k + 1 is made only when the delay has passed.
C32_BackoffDelay ==
    /\ [](\A f \in Sleeping :
              /\ f.attempt \in 1..(maxAttempts - 1)
              /\ \E jitter \in 0..999 :
                     f.delay = Min(1000 * Pow2(f.attempt - 1) + jitter, 10000)
              /\ f.delay >= 1000 * Pow2(f.attempt - 1)
              /\ f.delay <= 10000)
    /\ [][\A d \in Deliveries :
              LET old == bcasts[d[1]].targets[d[2]]
                  new == bcasts'[d[1]].targets[d[2]]
              IN  /\ (old.pc = "delivering" /\ new.pc = "backoff")
                     => new.attempt = old.attempt /\ new.wakeAt = now + new.delay
                  /\ (old.pc = "backoff" /\ new.pc # "backoff")
                     => /\ new.pc = "delivering"
                        /\ new.attempt = old.attempt + 1
                        /\ now' >= old.wakeAt
                  /\ (old.pc = "backoff" /\ new.pc = "backoff") => new = old]_vars

\* after a sleep of at least 1000 ms a delivery failed its second attempt and sleeps the
\* shortest time it can, 2000 ms, while another sleeps 1999 ms after its first attempt
C32_Witness ==
    \E c \in 1..Len(bcasts) :
        /\ \E i \in 1..Len(bcasts[c].targets) :
               /\ bcasts[c].targets[i].pc = "backoff"
               /\ bcasts[c].targets[i].attempt = 2
               /\ bcasts[c].targets[i].delay = 2000
               /\ bcasts[c].targets[i].wakeAt = now + 2000
        /\ \E i \in 1..Len(bcasts[c].targets) :
               /\ bcasts[c].targets[i].pc = "backoff"
               /\ bcasts[c].targets[i].attempt = 1
               /\ bcasts[c].targets[i].delay = 1999

\* the pending requests a sweep at time t has to reject
Overdue(t) ==
    {pendingMessages[i][1] :
        i \in {j \in 1..Len(pendingMessages) :
                  t - pendingMessages[j][2].sentAt > pendingMessages[j][2].timeout}}

\* C33: a run of the sweep rejects the pending requests that are older than their
\* timeout and takes them out of the map; the requests that are exactly as old as their
\* timeout, or younger, stay in the map as they were, in their order, and their callers
\* are not touched.
C33_SweepFrame ==
    [][nextSweep' # nextSweep
       => /\ pendingMessages'
                = SelectSeq(pendingMessages, LAMBDA e : e[1] \notin Overdue(now))
          /\ \A m \in Overdue(now) :
                 m \in DOMAIN consumed' /\ consumed'[m].by = "timeout"
          /\ \A m \in DOMAIN sends \ Overdue(now) :
                 /\ sends'[m] = sends[m]
                 /\ m \in DOMAIN consumed' <=> m \in DOMAIN consumed]_vars

\* a sweep has rejected one request and left in the map a request that was exactly as
\* old as its timeout
C33_Witness ==
    /\ nextSweep = now + sweepIntervalMs
    /\ \E m \in DOMAIN consumed :
           /\ consumed[m].by = "timeout"
           /\ sends[m].pc = "returned"
           /\ sends[m].result[1].error = ErrResponseTimeout
    /\ \E i \in 1..Len(pendingMessages) :
           /\ now - pendingMessages[i][2].sentAt = pendingMessages[i][2].timeout
           /\ sends[pendingMessages[i][1]].pc = "suspended"

\* C35: a handleResponse call of an agent that is not registered returns
\* delivered=false with an error and leaves the pending map, the callers, the history,
\* the events shown to the observers and the deliveries exactly as they were, so that
\* whatever could happen to the request before the call can happen after it.
C35_UnknownResponderIgnored ==
    [][(lastReturn'.call = "handleResponse" /\ ~RegistryHas(agents, lastReturn'.fromAgentId))
       => /\ ~lastReturn'.delivered
          /\ lastReturn'.error = ErrResponderNotFound
          /\ UNCHANGED <<pendingMessages, sends, consumed, responses, messageHistory,
                         uiEvents, firstDeliveries, calls, uuid>>]_vars

\* an unknown agent answered a request whose caller is waiting: the request is still
\* pending and the caller still waits
C35_Witness ==
    /\ lastReturn.call = "handleResponse"
    /\ ~RegistryHas(agents, lastReturn.fromAgentId)
    /\ MapHas(pendingMessages, lastReturn.messageId)
    /\ sends[lastReturn.messageId].pc = "suspended"
    /\ messageHistory # <<>>

\* C40: every handleResponse call that found the request pending and went on to
\* re-deliver the response was made in the name of the agent the request was routed to.
C40_OnlyTargetAnswers ==
    \A i \in 1..Len(responses) :
        responses[i].pending # <<>>
        => responses[i].fromAgentId = responses[i].pending[1].toAgentId

\* the handleResponse call has returned delivered=true
ReturnedDelivered(i) == responses[i].ret # <<>> /\ responses[i].ret[1].delivered

\* C37: of the handleResponse calls made for one messageId, at most one returns
\* delivered=true.
C37_OneResponsePerRequest ==
    \A i, j \in 1..Len(responses) :
        (i # j /\ responses[i].messageId = responses[j].messageId)
        => ~(ReturnedDelivered(i) /\ ReturnedDelivered(j))

\* C38: when a handleResponse call made for a request whose caller was waiting returns
\* delivered=true, the caller has returned ok=true with the response text of that call.
C38_DeliveredMeansReceived ==
    \A i \in 1..Len(responses) :
        (ReturnedDelivered(i) /\ responses[i].requestPc = "suspended")
        => LET s == sends[responses[i].messageId]
           IN  /\ s.pc = "returned"
               /\ s.result[1].ok
               /\ "response" \in DOMAIN s.result[1]
               /\ s.result[1].response = responses[i].payload.response

\* C36: the request of every sendMessage call that is suspended awaiting its response
\* is in the pending map.
C36_WaitingCallerHasPending ==
    \A m \in DOMAIN sends : sends[m].pc = "suspended" => MapHas(pendingMessages, m)

\* the errors the validation of sendMessage returns
ValidationErrors ==
    {ErrSenderNotFound, ErrTargetNotFound, ErrTargetNotAccepting, ErrTargetOffline,
     ErrNoCapabilityMatch, ErrMissingRoutingTarget}

\* C39: a sendMessage call that returns a validation error leaves the history, the
\* pending map, the events shown to the observers, the deliveries and the calls in
\* progress as they were, and takes no messageId.
C39_RefusedSendChangesNothing ==
    [][(lastReturn'.call = "sendMessage" /\ ~lastReturn'.ok)
       => /\ lastReturn'.error \in ValidationErrors
          /\ lastReturn'.error = ValidationError(agents, lastReturn'.fromAgentId,
                                                 lastReturn'.request)
          /\ UNCHANGED <<messageHistory, pendingMessages, uiEvents, firstDeliveries,
                         sends, consumed, uuid>>]_vars

\* a request was refused because its target is offline, with an earlier message in the
\* history and an earlier request still pending
C39_Witness ==
    /\ lastReturn.call = "sendMessage"
    /\ lastReturn.error = ErrTargetOffline
    /\ messageHistory # <<>>
    /\ pendingMessages # <<>>
====
